---- MODULE Spec2Model ----
(***************************************************************************)
(* Tiny Search Engine: the concurrent crawler (crawler/crawler.c) with the *)
(* locked queue, the locked hash table and pagesave it calls, the querier  *)
(* (query.c) with its tokeniser, validator and stack evaluator, the        *)
(* indexer (indexer/indexer.c) and the index file (indexio.c).             *)
(***************************************************************************)
EXTENDS Integers, Sequences, FiniteSets, TLC

(* ------------------------------ bounds -------------------------------- *)

\* max_depth ranges over 0..MaxDepthBound
MaxDepthBound == 2
\* at most this many fetches of non-seed pages fail in one crawl
MaxFetchFailures == 1

(* --------------------------- program constants ------------------------ *)

\* crawler.c:52  int num_threads= 3;
num_threads == 3

Threads == 0 .. (num_threads - 1)

\* the mutex is held by a thread or by nobody
FREE == 0 - 1

(* ------------------------------ the web ------------------------------- *)

\* main's argv[1]
seed_url == "s"

InternalURLs == {"s", "a", "b", "c"}
ExternalURLs == {"x"}
AllURLs == InternalURLs \cup ExternalURLs

\* webpage's IsInternalURL, as crawl uses it
IsInternalURL(u) == u \in InternalURLs

\* The sites crawled: for every URL the URLs its html embeds, in the order
\* webpage_getNextURL returns them.
WebDiamond ==
  [u \in AllURLs |->
     CASE u = "s" -> <<"a", "b">>
       [] u = "a" -> <<"b">>
       [] u = "b" -> <<"c">>
       [] OTHER   -> <<>>]

WebCycle ==
  [u \in AllURLs |->
     CASE u = "s" -> <<"s", "x", "a">>
       [] u = "a" -> <<"s", "b", "b">>
       [] u = "b" -> <<"a">>
       [] OTHER   -> <<>>]

WebChain ==
  [u \in AllURLs |->
     CASE u = "s" -> <<"a">>
       [] u = "a" -> <<"b">>
       [] u = "b" -> <<"c">>
       [] u = "c" -> <<"s">>
       [] OTHER   -> <<>>]

Webs == {WebDiamond, WebCycle, WebChain}

(* ------------------------------ state --------------------------------- *)

VARIABLES
  web,              \* the site being crawled (what webpage_fetch downloads)
  max_depth,        \* crawler.c:31,43
  qp,               \* crawler.c:28  the frontier (locked queue)
  hp,               \* crawler.c:29  the visited table (locked hash)
  pages_added,      \* crawler.c:31
  pages_retrieved,  \* crawler.c:31
  id,               \* crawler.c:31  next DocId
  crawl_mutex,      \* crawler.c:32  holder of the mutex, or FREE
  files,            \* the page directory: DocId -> page written
  main_pc,          \* where main is: "seed", "join", "done"
  exit_status,      \* "none" while the process runs, then "success"/"failure"
  pc,               \* where each worker is in crawl
  curr,             \* crawl's curr, per worker
  pos,              \* crawl's pos, per worker
  status,           \* crawl's status, per worker
  rd,               \* the operand of the loop test already read, per worker
  fetch_failed      \* URLs whose fetch has failed so far (history)

\* the querier's state (query.c main)
VARIABLES
  pagedir,          \* query.c:147  the page directory: DocId -> page
  index,            \* query.c:153  the loaded index: word -> posting list
  loaded,           \* the index as indexload returned it (history)
  query,            \* query.c:155  the line read, a sequence of characters
  tokenized_query,  \* query.c:156
  num_tokens,       \* query.c:157
  scan,             \* query.c:197  the for loop's i
  stack,            \* query.c:160  the stack of result lists, slot 0 first
  top,              \* query.c:157
  curr_operator,    \* query.c:156
  ranked_docs,      \* query.c:160
  out,              \* what this iteration has printed
  underflow,        \* a slot below the stack has been read (history)
  earlier,          \* a line was read in an earlier turn of the loop (history)
  query_pc          \* where the querier is in its loop

crawler == <<web, max_depth, qp, hp, pages_added, pages_retrieved, id,
             crawl_mutex, files, main_pc, exit_status, pc, curr, pos, status,
             rd, fetch_failed>>

querier == <<pagedir, index, loaded, query, tokenized_query, num_tokens,
             scan, stack, top, curr_operator, ranked_docs, out, underflow,
             earlier, query_pc>>

\* the indexer's state (indexer.c main) and the index file it writes
VARIABLES
  page_dir,         \* indexer.c:119  the page directory: name -> words
  unread,           \* the directory entries readdir has not returned yet
  file_ids,         \* indexer.c:122  files, the ids read (count is its length)
  file_i,           \* indexer.c:149  the for loop's i
  page_words,       \* indexer.c:152  the words of page not yet returned
  index_ht,         \* indexer.c:117  the index built: the entries put
  index_file,       \* the characters of the index file
  reloaded,         \* the entries indexload made of the index file
  indexer_pc        \* where the indexer is

indexer == <<page_dir, unread, file_ids, file_i, page_words, index_ht, index_file,
             reloaded, indexer_pc>>

\* the state of the programs that exercise the utility modules
VARIABLES
  webpage,          \* pageio_test.c:19  the page that is saved
  page_files,       \* the page directory: id -> the characters of the file
  page_copy,        \* pageio_test.c:32  what pageload made of the file
  pageio_pc         \* where the program that saves and loads is

pageio == <<webpage, page_files, page_copy, pageio_pc>>

\* the state of a program that uses a queue (queue.c) from one thread
VARIABLES
  queue,            \* queue.c:24-28  the queue: front, back and its nodes
  fifo,             \* the elements a FIFO sequence would hold (reference)
  q_ret             \* what the last call returned, and the reference's answer

queues == <<queue, fifo, q_ret>>

\* the state of a program whose threads share a locked queue (lqueue.c)
VARIABLES
  mutex,            \* lqueue.c:18  the lock of the locked queues
  mutex_h,          \* lhash.c:17   the lock of the locked hash tables
  main_thread,      \* where the main thread is: which instance is open
  thr,              \* where each thread is in its call, and its locals
  call_hist,        \* the elements put and those returned so far (history)
  htable            \* hash.c:16-20  the table: a queue for every hash value

locked == <<mutex, mutex_h, main_thread, thr, call_hist, htable>>

utils == <<pageio, queues, locked>>

vars == <<crawler, querier, indexer, utils>>

shared == <<qp, hp, pages_added, pages_retrieved, id, files>>

NULL == [url |-> "null", depth |-> 0 - 1]

NoRead == [op |-> "none", val |-> 0]

(* ------------------------- the callee functions ----------------------- *)

\* webpage_new(url, depth, NULL)
webpage_new(u, d) == [url |-> u, depth |-> d]

\* queue.c qput: append at the back
qput(q, e) == Append(q, e)

\* queue.c qget: the front element, NULL when the queue is empty
qget_data(q) == IF q = <<>> THEN NULL ELSE Head(q)

qget_rest(q) == IF q = <<>> THEN q ELSE Tail(q)

\* hash.c hput: one more entry under the key
hput(h, key) == [h EXCEPT ![key] = @ + 1]

\* hash.c hsearch with crawler.c searchfn (strcmp): is there an entry
hsearch(h, key) == h[key] > 0

\* faulty variant: the visited table is not consulted
lhsearch_null_unchecked(h, key) == TRUE

\* crawler.c:129 the test the worker makes on a found URL
lhsearch_null(h, key) == ~hsearch(h, key)

\* pageio.c pagesave: the file <id> opened "w" and written, or untouched
\* when fopen fails
pagesave(f, page, docid, ok) == IF ok THEN (docid :> page) @@ f ELSE f

pagesave_status(ok) == IF ok THEN 0 ELSE 1

\* faulty variant: the inner loop does not test the depth
HasNextURL_nodepth(t) == pos[t] < Len(web[curr[t].url])

\* crawler.c:123 the inner loop's test: depth<max_depth and another URL
HasNextURL(t) ==
  /\ curr[t].depth < max_depth
  /\ pos[t] < Len(web[curr[t].url])

\* the URL webpage_getNextURL has just returned to worker t
url(t) == web[curr[t].url][pos[t]]

(* ------------------------------- Init --------------------------------- *)

\* the indexer is another program: it is not running during a crawl or
\* while queries are answered
IndexerNotStarted ==
  /\ page_dir = <<>> /\ unread = {} /\ file_ids = <<>> /\ file_i = 0
  /\ page_words = <<>> /\ index_ht = <<>> /\ index_file = <<>> /\ reloaded = <<>>
  /\ indexer_pc = "off"

\* no page is being saved and loaded
PageioNotStarted ==
  /\ webpage = <<>> /\ page_files = <<>> /\ page_copy = <<>>
  /\ pageio_pc = "off"

\* no queue is open
QueueNotStarted == queue = <<>> /\ fifo = <<>> /\ q_ret = <<>>

\* no locked queue is in use
LockedNotStarted ==
  /\ mutex = <<>> /\ mutex_h = <<>> /\ main_thread = "off" /\ thr = <<>>
  /\ call_hist = <<>> /\ htable = <<>>

\* the programs that exercise the utility modules are not running
UtilsNotStarted == PageioNotStarted /\ QueueNotStarted /\ LockedNotStarted

\* the querier is another program: it is not running during a crawl
QuerierNotStarted ==
  /\ pagedir = <<>> /\ index = <<>> /\ loaded = <<>>
  /\ query = <<>> /\ tokenized_query = <<>> /\ num_tokens = 0 /\ scan = 0
  /\ stack = <<>> /\ top = 0 - 1 /\ curr_operator = <<>>
  /\ ranked_docs = <<>> /\ out = <<>> /\ underflow = FALSE
  /\ earlier = FALSE
  /\ query_pc = "off"

Init ==
  /\ web \in Webs
  /\ max_depth \in 0 .. MaxDepthBound
  /\ qp = <<>>
  /\ hp = [u \in AllURLs |-> 0]
  /\ pages_added = 1
  /\ pages_retrieved = 0
  /\ id = 1
  /\ crawl_mutex = FREE
  /\ files = <<>>
  /\ main_pc = "seed"
  /\ exit_status = "none"
  /\ pc = [t \in Threads |-> "get"]
  /\ curr = [t \in Threads |-> NULL]
  /\ pos = [t \in Threads |-> 0]
  /\ status = [t \in Threads |-> 0]
  /\ rd = [t \in Threads |-> NoRead]
  /\ fetch_failed = {}
  /\ QuerierNotStarted
  /\ IndexerNotStarted
  /\ UtilsNotStarted

(* ------------------------------- main --------------------------------- *)

workers == <<pc, curr, pos, status, rd>>

\* crawler.c:72-75 the seed cannot be fetched: exit(EXIT_FAILURE)
MainSeedFetchFails ==
  /\ main_pc = "seed"
  /\ main_pc' = "done"
  /\ exit_status' = "failure"
  /\ UNCHANGED <<querier, indexer, utils>>
  /\ UNCHANGED <<web, max_depth, shared, crawl_mutex, workers, fetch_failed>>

\* crawler.c:64-91 the seed is fetched, queued, marked and saved (the status
\* of pagesave is dropped), and the workers are started
MainSeed ==
  /\ main_pc = "seed"
  /\ \E ok \in BOOLEAN :
       /\ qp' = qput(qp, webpage_new(seed_url, 0))
       /\ hp' = hput(hp, seed_url)
       /\ files' = pagesave(files, webpage_new(seed_url, 0), id, ok)
       /\ id' = id + 1
  /\ main_pc' = "join"
  /\ UNCHANGED <<querier, indexer, utils>>
  /\ UNCHANGED <<web, max_depth, pages_added, pages_retrieved, crawl_mutex,
                 exit_status, workers, fetch_failed>>

\* crawler.c:93-104 every worker joined: exit(EXIT_SUCCESS)
MainJoin ==
  /\ main_pc = "join"
  /\ exit_status = "none"
  /\ \A t \in Threads : pc[t] = "done"
  /\ main_pc' = "done"
  /\ exit_status' = "success"
  /\ UNCHANGED <<querier, indexer, utils>>
  /\ UNCHANGED <<web, max_depth, shared, crawl_mutex, workers, fetch_failed>>

(* ------------------------------ crawl --------------------------------- *)

Running == main_pc = "join" /\ exit_status = "none"

\* crawler.c:115 curr=lqget(qp), and 119: a page was dequeued
Get(t) ==
  /\ Running /\ pc[t] = "get"
  /\ qget_data(qp) # NULL
  /\ curr' = [curr EXCEPT ![t] = qget_data(qp)]
  /\ qp' = qget_rest(qp)
  /\ pos' = [pos EXCEPT ![t] = 0]
  /\ pc' = [pc EXCEPT ![t] = "next"]
  /\ UNCHANGED <<querier, indexer, utils>>
  /\ UNCHANGED <<web, max_depth, hp, pages_added, pages_retrieved, id,
                 crawl_mutex, files, main_pc, exit_status, status, rd,
                 fetch_failed>>

\* crawler.c:115 lqget(qp) returned NULL: go on to pages_retrieved<pages_added
GetNull(t) ==
  /\ Running /\ pc[t] = "get"
  /\ qget_data(qp) = NULL
  /\ curr' = [curr EXCEPT ![t] = NULL]
  /\ pc' = [pc EXCEPT ![t] = "cmp"]
  /\ UNCHANGED <<querier, indexer, utils>>
  /\ UNCHANGED <<web, max_depth, shared, crawl_mutex, main_pc, exit_status,
                 pos, status, rd, fetch_failed>>

\* crawler.c:115 pages_retrieved<pages_added is read without the mutex while
\* other workers write both counters: the two loads happen one after the
\* other, in either order
CmpReadFirst(t) ==
  /\ Running /\ pc[t] = "cmp"
  /\ \/ rd' = [rd EXCEPT ![t] = [op |-> "retrieved", val |-> pages_retrieved]]
     \/ rd' = [rd EXCEPT ![t] = [op |-> "added", val |-> pages_added]]
  /\ pc' = [pc EXCEPT ![t] = "cmp2"]
  /\ UNCHANGED <<querier, indexer, utils>>
  /\ UNCHANGED <<web, max_depth, shared, crawl_mutex, main_pc, exit_status,
                 curr, pos, status, fetch_failed>>

\* the value of pages_retrieved<pages_added worker t computes at its second load
LoopTest(t) ==
  IF rd[t].op = "retrieved" THEN rd[t].val < pages_added
                            ELSE pages_retrieved < rd[t].val

\* crawler.c:115-118 second load and the test: spin (continue) or leave
CmpReadSecond(t) ==
  /\ Running /\ pc[t] = "cmp2"
  /\ pc' = [pc EXCEPT ![t] = IF LoopTest(t) THEN "get" ELSE "done"]
  /\ rd' = [rd EXCEPT ![t] = NoRead]
  /\ UNCHANGED <<querier, indexer, utils>>
  /\ UNCHANGED <<web, max_depth, shared, crawl_mutex, main_pc, exit_status,
                 curr, pos, status, fetch_failed>>

\* crawler.c:123-127,158-161 the inner loop's test and the next URL: an
\* internal URL goes to the critical section, an external one is dropped
NextURL(t) ==
  /\ Running /\ pc[t] = "next"
  /\ HasNextURL(t)
  /\ pos' = [pos EXCEPT ![t] = @ + 1]
  /\ pc' = [pc EXCEPT ![t] =
              IF IsInternalURL(web[curr[t].url][pos[t] + 1]) THEN "lock"
                                                           ELSE "next"]
  /\ UNCHANGED <<querier, indexer, utils>>
  /\ UNCHANGED <<web, max_depth, shared, crawl_mutex, main_pc, exit_status,
                 curr, status, rd, fetch_failed>>

\* crawler.c:123 the inner loop ends: on to line 163
NoNextURL(t) ==
  /\ Running /\ pc[t] = "next"
  /\ ~HasNextURL(t)
  /\ pc' = [pc EXCEPT ![t] = "lock_ret"]
  /\ UNCHANGED <<querier, indexer, utils>>
  /\ UNCHANGED <<web, max_depth, shared, crawl_mutex, main_pc, exit_status,
                 curr, pos, status, rd, fetch_failed>>

\* crawler.c:128 pthread_mutex_lock(&crawl_mutex)
Lock(t) ==
  /\ Running /\ pc[t] = "lock"
  /\ crawl_mutex = FREE
  /\ crawl_mutex' = t
  /\ pc' = [pc EXCEPT ![t] = "search"]
  /\ UNCHANGED <<querier, indexer, utils>>
  /\ UNCHANGED <<web, max_depth, shared, main_pc, exit_status, curr, pos,
                 status, rd, fetch_failed>>

\* crawler.c:129 lhsearch(hp, searchfn, url, strlen(url)) == NULL ?
Search(t) ==
  /\ Running /\ pc[t] = "search"
  /\ pc' = [pc EXCEPT ![t] = IF lhsearch_null(hp, url(t)) THEN "fetch"
                                                         ELSE "unlock_dup"]
  /\ UNCHANGED <<querier, indexer, utils>>
  /\ UNCHANGED <<web, max_depth, shared, crawl_mutex, main_pc, exit_status,
                 curr, pos, status, rd, fetch_failed>>

\* crawler.c:152-156 the URL is in the table: unlock, next URL
UnlockDup(t) ==
  /\ Running /\ pc[t] = "unlock_dup"
  /\ crawl_mutex' = FREE
  /\ pc' = [pc EXCEPT ![t] = "next"]
  /\ UNCHANGED <<querier, indexer, utils>>
  /\ UNCHANGED <<web, max_depth, shared, main_pc, exit_status, curr, pos,
                 status, rd, fetch_failed>>

\* crawler.c:130-135 webpage_new and a webpage_fetch that succeeds
FetchOk(t) ==
  /\ Running /\ pc[t] = "fetch"
  /\ pc' = [pc EXCEPT ![t] = "lqput"]
  /\ UNCHANGED <<querier, indexer, utils>>
  /\ UNCHANGED <<web, max_depth, shared, crawl_mutex, main_pc, exit_status,
                 curr, pos, status, rd, fetch_failed>>

\* crawler.c:135-136 webpage_fetch fails
FetchFails(t) ==
  /\ Running /\ pc[t] = "fetch"
  /\ Cardinality(fetch_failed) < MaxFetchFailures
  /\ fetch_failed' = fetch_failed \cup {url(t)}
  /\ pc' = [pc EXCEPT ![t] = "fetch_failed"]
  /\ UNCHANGED <<querier, indexer, utils>>
  /\ UNCHANGED <<web, max_depth, shared, crawl_mutex, main_pc, exit_status,
                 curr, pos, status, rd>>

\* faulty variant: the failure path marks the URL visited
FetchFailedMarksVisited(t) ==
  /\ Running /\ pc[t] = "fetch_failed"
  /\ crawl_mutex' = FREE
  /\ hp' = [hp EXCEPT ![web[curr[t].url][pos[t]]] = @ + 1]
  /\ pc' = [pc EXCEPT ![t] = "next"]
  /\ UNCHANGED <<querier, indexer, utils>>
  /\ UNCHANGED <<web, max_depth, qp, pages_added, pages_retrieved, id, files,
                 main_pc, exit_status, curr, pos, status, rd, fetch_failed>>

\* crawler.c:137-140 unlock, free, continue with the next URL
FetchFailedUnlock(t) ==
  /\ Running /\ pc[t] = "fetch_failed"
  /\ crawl_mutex' = FREE
  /\ pc' = [pc EXCEPT ![t] = "next"]
  /\ UNCHANGED <<querier, indexer, utils>>
  /\ UNCHANGED <<web, max_depth, shared, main_pc, exit_status, curr, pos,
                 status, rd, fetch_failed>>

\* the page worker t has built at crawler.c:130
page(t) == webpage_new(url(t), curr[t].depth + 1)

\* crawler.c:143 lqput(qp, page)
LqPut(t) ==
  /\ Running /\ pc[t] = "lqput"
  /\ qp' = qput(qp, page(t))
  /\ pc' = [pc EXCEPT ![t] = "added"]
  /\ UNCHANGED <<querier, indexer, utils>>
  /\ UNCHANGED <<web, max_depth, hp, pages_added, pages_retrieved, id,
                 crawl_mutex, files, main_pc, exit_status, curr, pos, status,
                 rd, fetch_failed>>

\* faulty variant: the enqueued page is not counted
PagesAddedForgotten(t) ==
  /\ Running /\ pc[t] = "added"
  /\ pc' = [pc EXCEPT ![t] = "lhput"]
  /\ UNCHANGED <<querier, indexer, utils>>
  /\ UNCHANGED <<web, max_depth, shared, crawl_mutex, main_pc, exit_status,
                 curr, pos, status, rd, fetch_failed>>

\* crawler.c:144 pages_added++
PagesAdded(t) ==
  /\ Running /\ pc[t] = "added"
  /\ pages_added' = pages_added + 1
  /\ pc' = [pc EXCEPT ![t] = "lhput"]
  /\ UNCHANGED <<querier, indexer, utils>>
  /\ UNCHANGED <<web, max_depth, qp, hp, pages_retrieved, id, crawl_mutex,
                 files, main_pc, exit_status, curr, pos, status, rd,
                 fetch_failed>>

\* crawler.c:145 lhput(hp,url,url,strlen(url))
LhPut(t) ==
  /\ Running /\ pc[t] = "lhput"
  /\ hp' = hput(hp, url(t))
  /\ pc' = [pc EXCEPT ![t] = "save"]
  /\ UNCHANGED <<querier, indexer, utils>>
  /\ UNCHANGED <<web, max_depth, qp, pages_added, pages_retrieved, id,
                 crawl_mutex, files, main_pc, exit_status, curr, pos, status,
                 rd, fetch_failed>>

\* crawler.c:146 status = pagesave(page, id++, dirname)
Save(t) ==
  /\ Running /\ pc[t] = "save"
  /\ \E ok \in BOOLEAN :
       /\ files' = pagesave(files, page(t), id, ok)
       /\ status' = [status EXCEPT ![t] = pagesave_status(ok)]
  /\ id' = id + 1
  /\ pc' = [pc EXCEPT ![t] = "unlock"]
  /\ UNCHANGED <<querier, indexer, utils>>
  /\ UNCHANGED <<web, max_depth, qp, hp, pages_added, pages_retrieved,
                 crawl_mutex, main_pc, exit_status, curr, pos, rd,
                 fetch_failed>>

\* crawler.c:147 pthread_mutex_unlock(&crawl_mutex)
Unlock(t) ==
  /\ Running /\ pc[t] = "unlock"
  /\ crawl_mutex' = FREE
  /\ pc' = [pc EXCEPT ![t] = "status"]
  /\ UNCHANGED <<querier, indexer, utils>>
  /\ UNCHANGED <<web, max_depth, shared, main_pc, exit_status, curr, pos,
                 status, rd, fetch_failed>>

\* crawler.c:148-150 a failed save: exit(EXIT_FAILURE)
SaveFailedExit(t) ==
  /\ Running /\ pc[t] = "status"
  /\ status[t] # 0
  /\ exit_status' = "failure"
  /\ pc' = [pc EXCEPT ![t] = "exit"]
  /\ UNCHANGED <<querier, indexer, utils>>
  /\ UNCHANGED <<web, max_depth, shared, crawl_mutex, main_pc, curr, pos,
                 status, rd, fetch_failed>>

\* crawler.c:148 the save succeeded: next URL
SaveOk(t) ==
  /\ Running /\ pc[t] = "status"
  /\ status[t] = 0
  /\ pc' = [pc EXCEPT ![t] = "next"]
  /\ UNCHANGED <<querier, indexer, utils>>
  /\ UNCHANGED <<web, max_depth, shared, crawl_mutex, main_pc, exit_status,
                 curr, pos, status, rd, fetch_failed>>

\* faulty variant: line 163 does not take the mutex
LockRetSkipped(t) ==
  /\ Running /\ pc[t] = "lock_ret"
  /\ pc' = [pc EXCEPT ![t] = "retrieved"]
  /\ UNCHANGED <<querier, indexer, utils>>
  /\ UNCHANGED <<web, max_depth, shared, crawl_mutex, main_pc, exit_status,
                 curr, pos, status, rd, fetch_failed>>

\* crawler.c:163 pthread_mutex_lock(&crawl_mutex)
LockRet(t) ==
  /\ Running /\ pc[t] = "lock_ret"
  /\ crawl_mutex = FREE
  /\ crawl_mutex' = t
  /\ pc' = [pc EXCEPT ![t] = "retrieved"]
  /\ UNCHANGED <<querier, indexer, utils>>
  /\ UNCHANGED <<web, max_depth, shared, main_pc, exit_status, curr, pos,
                 status, rd, fetch_failed>>

\* crawler.c:164 pages_retrieved++
PagesRetrieved(t) ==
  /\ Running /\ pc[t] = "retrieved"
  /\ pages_retrieved' = pages_retrieved + 1
  /\ pc' = [pc EXCEPT ![t] = "unlock_ret"]
  /\ UNCHANGED <<querier, indexer, utils>>
  /\ UNCHANGED <<web, max_depth, qp, hp, pages_added, id, crawl_mutex, files,
                 main_pc, exit_status, curr, pos, status, rd, fetch_failed>>

\* crawler.c:165-166 unlock, webpage_delete(curr), back to the loop test
UnlockRet(t) ==
  /\ Running /\ pc[t] = "unlock_ret"
  /\ crawl_mutex' = FREE
  /\ curr' = [curr EXCEPT ![t] = NULL]
  /\ pos' = [pos EXCEPT ![t] = 0]
  /\ pc' = [pc EXCEPT ![t] = "get"]
  /\ UNCHANGED <<querier, indexer, utils>>
  /\ UNCHANGED <<web, max_depth, shared, main_pc, exit_status, status, rd,
                 fetch_failed>>

\* crawler.c:107-170 one step of worker t
crawl(t) ==
  \/ Get(t) \/ GetNull(t) \/ CmpReadFirst(t) \/ CmpReadSecond(t)
  \/ NextURL(t) \/ NoNextURL(t)
  \/ Lock(t) \/ Search(t) \/ UnlockDup(t)
  \/ FetchOk(t) \/ FetchFails(t) \/ FetchFailedUnlock(t)
  \/ LqPut(t) \/ PagesAdded(t) \/ LhPut(t) \/ Save(t) \/ Unlock(t)
  \/ SaveFailedExit(t) \/ SaveOk(t)
  \/ LockRet(t) \/ PagesRetrieved(t) \/ UnlockRet(t)

main == MainSeedFetchFails \/ MainSeed \/ MainJoin

Next == main \/ \E t \in Threads : crawl(t)

Spec == Init /\ [][Next]_vars

\* every worker and main keep being scheduled
FairSpec == Spec /\ WF_vars(main) /\ \A t \in Threads : WF_vars(crawl(t))

(* ------------------------------ notions ------------------------------- *)

\* the DocIds of the page files that hold URL u
Saved(u) == {i \in DOMAIN files : files[i].url = u}

SavedURLs == {files[i].url : i \in DOMAIN files}

VisitedURLs == {u \in AllURLs : hp[u] > 0}

\* a pagesave has failed: a DocId handed out has no file
SaveFailed == \E i \in 1 .. (id - 1) : i \notin DOMAIN files

\* the process has ended or every worker has left its loop
WorkersStopped == exit_status # "none" \/ \A t \in Threads : pc[t] = "done"

\* the internal URLs within k links of the seed
RECURSIVE Reach(_)
Reach(k) ==
  IF k = 0 THEN {seed_url}
  ELSE LET R == Reach(k - 1)
       IN  R \cup {v \in InternalURLs :
                     \E u \in R : \E i \in 1 .. Len(web[u]) : web[u][i] = v}

\* worker t is inside the body of the inner loop (lines 124-161)
InBody(t) ==
  pc[t] \in {"lock", "search", "unlock_dup", "fetch", "fetch_failed", "lqput",
             "added", "lhput", "save", "unlock", "status"}

\* worker t holds a dequeued page that it has not counted as retrieved yet
\* (lines 119-163)
Expanding(t) == curr[t] # NULL /\ pc[t] # "unlock_ret"

(* ------------------------------- claims ------------------------------- *)

\* C1: in every reachable state no URL has more than one page file: a URL is
\* saved at most once, also when several workers find it at the same time or
\* when it is found again after a fetch of it failed.
C1_NoURLSavedTwice == \A u \in AllURLs : Cardinality(Saved(u)) <= 1

\* C1 witness: two workers have found the same URL on different pages, the
\* fetch of it failed for one of them, and it is saved, once.
C1_Witness ==
  \E u \in fetch_failed :
    /\ Cardinality(Saved(u)) = 1
    /\ \E t, o \in Threads :
         /\ t # o /\ Expanding(t) /\ Expanding(o)
         /\ curr[t].url # curr[o].url
         /\ pos[t] >= 1 /\ pos[o] >= 1
         /\ url(t) = u /\ url(o) = u

\* C2 (as claimed): when no fetch and no save failed, at the end of the crawl
\* every internal URL within max_depth links of the seed is saved exactly once.
C2_CrawlCoversReachable ==
  (exit_status = "success" /\ fetch_failed = {} /\ ~SaveFailed)
    => \A u \in Reach(max_depth) : Cardinality(Saved(u)) = 1

\* C3 (as claimed): a worker that has left its loop did so with
\* pages_retrieved caught up with pages_added, no page queued and no page
\* being expanded by another worker.
C3_ExitOnlyWhenCaughtUp ==
  \A t \in Threads :
    pc[t] = "done" =>
      /\ pages_retrieved >= pages_added
      /\ qp = <<>>
      /\ \A o \in Threads : ~Expanding(o)

StepOf(t) == pc'[t] # pc[t]

C6_VisitedEqualsSaved == exit_status = "success" => VisitedURLs = SavedURLs

\* C7: a worker whose fetch of a new URL failed changes nothing shared: the
\* URL is not marked visited, nothing is enqueued, the DocId counter, the
\* counters and the page files stay as they are, the mutex it held is
\* released and it goes on with the next URL of the same page.
C7_FetchFailureKeepsState ==
  [][\A t \in Threads :
       /\ (pc[t] = "fetch" /\ pc'[t] = "fetch_failed")
            => (/\ UNCHANGED <<shared, exit_status>>
                /\ crawl_mutex = t /\ crawl_mutex' = t)
       /\ (pc[t] = "fetch_failed" /\ StepOf(t))
            => (/\ UNCHANGED <<shared, exit_status>>
                /\ hp'[url(t)] = 0
                /\ crawl_mutex = t /\ crawl_mutex' = FREE
                /\ pc'[t] = "next"
                /\ curr'[t] = curr[t] /\ pos'[t] = pos[t])]_vars

\* C7 witness: a worker is back at the inner loop after a failed fetch of its
\* URL, the URL is unvisited and the mutex is free.
C7_Witness ==
  \E t \in Threads :
    /\ pc[t] = "next" /\ pos[t] >= 1
    /\ url(t) \in fetch_failed
    /\ hp[url(t)] = 0
    /\ Saved(url(t)) = {}
    /\ crawl_mutex = FREE

\* C8 (as claimed): a failed save is fatal: the process never ends with
\* success after one, and no page is saved after a save failed.
C8_FailedSaveIsFatal ==
  /\ SaveFailed => exit_status # "success"
  /\ \A i \in 1 .. (id - 1) :
       i \notin DOMAIN files => \A j \in DOMAIN files : j < i

\* C9: every page file has a depth in 0..max_depth, the seed's is 0, a page
\* found on a page of depth d is saved with depth d+1, and a worker is inside
\* the inner loop only for a page of depth below max_depth.
C9_DepthBounded ==
  /\ \A i \in DOMAIN files :
       /\ 0 <= files[i].depth /\ files[i].depth <= max_depth
       /\ files[i].url = seed_url => files[i].depth = 0
  /\ \A t \in Threads :
       /\ InBody(t) => curr[t].depth < max_depth
       /\ (pc[t] = "unlock" /\ status[t] = 0)
            => files[id - 1] = webpage_new(url(t), curr[t].depth + 1)

\* C9 witness: a page of depth max_depth >= 2 is saved and a worker holding a
\* page of that depth has gone past the inner loop without entering it.
C9_Witness ==
  /\ max_depth >= 2
  /\ \E i \in DOMAIN files : files[i].depth = max_depth
  /\ \E t \in Threads :
       pc[t] = "lock_ret" /\ curr[t].depth = max_depth /\ pos[t] = 0

\* C10 (as claimed): with max_depth = 0 a crawl that has ended has saved
\* exactly one page, the seed.
C10_DepthZeroSavesSeedOnly ==
  (max_depth = 0 /\ exit_status = "success")
    => (DOMAIN files = {1} /\ files[1] = webpage_new(seed_url, 0))

\* C11: DocIds are handed out in save order from 1: the page files on disk
\* are numbered 1..n with the seed in file 1, and a DocId is never reused
C11_DocIdsDenseInSaveOrder ==
  /\ DOMAIN files = 1 .. Cardinality(DOMAIN files)
  /\ \A i \in DOMAIN files : i < id
  /\ Saved(seed_url) \subseteq {1}

(***************************************************************************)
(* The querier (query.c): it loads an index, then reads queries from       *)
(* standard input, one per line, and prints the ranked documents of each.  *)
(***************************************************************************)

(* ---------------------------- characters ------------------------------ *)

\* a string is a sequence of characters, a character a one-letter string
Lower == <<"a", "b", "c", "d", "e", "f", "g", "h", "i", "j", "k", "l", "m",
           "n", "o", "p", "q", "r", "s", "t", "u", "v", "w", "x", "y", "z">>

Upper == <<"A", "B", "C", "D", "E", "F", "G", "H", "I", "J", "K", "L", "M",
           "N", "O", "P", "Q", "R", "S", "T", "U", "V", "W", "X", "Y", "Z">>

Letters == {Lower[k] : k \in DOMAIN Lower} \cup {Upper[k] : k \in DOMAIN Upper}

LowerOf == [c \in {Upper[k] : k \in DOMAIN Upper} |->
              Lower[CHOOSE k \in DOMAIN Upper : c = Upper[k]]]

\* <ctype.h> isalpha in the C locale
isalpha(c) == c \in Letters

\* <ctype.h> tolower in the C locale
tolower(c) == IF c \in DOMAIN LowerOf THEN LowerOf[c] ELSE c

\* query.c:289,306,325 the delimiters given to strtok
Delimiters == {" ", "\t"}

\* the literals "and" and "or" of query.c
and == <<"a", "n", "d">>
or == <<"o", "r">>

\* a null char*
NULL_TOKEN == <<>>

(* ----------------------------- tokenising ----------------------------- *)

\* <string.h> strtok(query, " \t") called until it returns NULL: the
\* maximal runs of characters that are not delimiters, left to right
RECURSIVE strtok_from(_, _, _)
strtok_from(s, k, token) ==
  IF k > Len(s)
  THEN IF token = <<>> THEN <<>> ELSE <<token>>
  ELSE IF s[k] \in Delimiters
       THEN IF token = <<>>
            THEN strtok_from(s, k + 1, <<>>)
            ELSE <<token>> \o strtok_from(s, k + 1, <<>>)
       ELSE strtok_from(s, k + 1, Append(token, s[k]))

strtok(s) == strtok_from(s, 1, <<>>)

\* query.c:349-364 NormalizeWord: false at the first character that is not
\* a letter, else the word lowercased in place and true
RECURSIVE NormalizeWord_from(_, _)
NormalizeWord_from(word, k) ==
  IF k > Len(word)
  THEN [ok |-> TRUE, word |-> word]
  ELSE IF ~isalpha(word[k])
       THEN [ok |-> FALSE, word |-> word]
       ELSE NormalizeWord_from([word EXCEPT ![k] = tolower(word[k])], k + 1)

NormalizeWord(word) == NormalizeWord_from(word, 1)

\* strcmp(t, "and") == 0 || strcmp(t, "or") == 0
is_operator(t) == t = and \/ t = or

\* faulty variant: the literal or is dropped with the other short tokens
too_short_or_too(token) == Len(token) < 3

\* query.c:304  strlen(token) < 3 && strcmp(token, "or") != 0
too_short(token) == Len(token) < 3 /\ token # or

\* faulty variant: an and is put after every emitted token
implicit_and_always(prev_token, token) == prev_token # NULL_TOKEN

\* query.c:309-312 an implicit and goes before token: the token emitted
\* before it is a term and token is a term
implicit_and(prev_token, token) ==
  /\ prev_token # NULL_TOKEN /\ prev_token # and /\ prev_token # or
  /\ token # and /\ token # or

\* the state of tokenize_query's loop (query.c:288,290 and the early return)
tokenize_start ==
  [tokenized_query |-> <<>>, prev_token |-> NULL_TOKEN, count |-> 0,
   failed |-> FALSE]

\* faulty variant: the length test runs before NormalizeWord
tokenize_token_length_first(st, token) ==
  IF st.failed THEN st
  ELSE IF Len(token) < 3 /\ NormalizeWord(token).word # or THEN st
  ELSE IF ~NormalizeWord(token).ok
  THEN [st EXCEPT !.failed = TRUE, !.tokenized_query = <<>>, !.count = 0]
  ELSE LET w == NormalizeWord(token).word
           glue == IF implicit_and(st.prev_token, w) THEN <<and>> ELSE <<>>
       IN  [st EXCEPT !.tokenized_query = @ \o glue \o <<w>>,
                      !.prev_token = w,
                      !.count = @ + Len(glue) + 1]

\* query.c:291-327 one turn of the while loop on one strtok token
tokenize_token(st, token) ==
  IF st.failed THEN st
  ELSE IF ~NormalizeWord(token).ok
  THEN [st EXCEPT !.failed = TRUE, !.tokenized_query = <<>>, !.count = 0]
  ELSE LET w == NormalizeWord(token).word
       IN  IF too_short(w) THEN st
           ELSE LET glue == IF implicit_and(st.prev_token, w)
                            THEN <<and>> ELSE <<>>
                IN  [st EXCEPT !.tokenized_query = @ \o glue \o <<w>>,
                               !.prev_token = w,
                               !.count = @ + Len(glue) + 1]

RECURSIVE tokenize_loop(_, _)
tokenize_loop(st, tokens) ==
  IF tokens = <<>> THEN st
  ELSE tokenize_loop(tokenize_token(st, Head(tokens)), Tail(tokens))

\* query.c:286-331 tokenize_query: the token stream and *num_tokens; the
\* stream is NULL (here the empty stream) when a token is rejected, and
\* also when no token is emitted, and *num_tokens is then left at 0
tokenize_query(q) ==
  LET st == tokenize_loop(tokenize_start, strtok(q))
  IN  [tokenized_query |-> st.tokenized_query, num_tokens |-> st.count]

\* faulty variant: only the ends of the stream are tested
validate_query_ends_only(tq, n) ==
  ~(is_operator(tq[1]) \/ is_operator(tq[n]))

\* query.c:366-388 validate_query
validate_query(tq, n) ==
  /\ ~(tq[1] = and \/ tq[1] = or \/ tq[n] = and \/ tq[n] = or)
  /\ \A k \in 1 .. (n - 1) :
       /\ tq[k] = and => ~(tq[k + 1] = and \/ tq[k + 1] = or)
       /\ tq[k] = or => ~(tq[k + 1] = and \/ tq[k + 1] = or)

(* --------------------------- result lists ----------------------------- *)

\* a null char* field of a rankedDoc_t
NULL_STRING == "NULL"

\* query.c:333-347 init_doc: a rankedDoc_t with no metadata yet
init_doc(doc_id, rank) ==
  [id |-> doc_id, word_count |-> rank, url |-> NULL_STRING,
   title |-> NULL_STRING, content |-> NULL_STRING]

\* indexio.h:36-40 document_t, a posting of the index
new_doc(doc_id, count) == [id |-> doc_id, word_count |-> count]

\* queue.c:133-150 qsearch with doc_searchfn (query.c:575-579): the place
\* of the first element whose id is the key, 0 for NULL
qsearch(q, key) ==
  IF \E k \in DOMAIN q : q[k].id = key
  THEN CHOOSE k \in DOMAIN q :
         q[k].id = key /\ \A j \in 1 .. (k - 1) : q[j].id # key
  ELSE 0

\* the smaller of two counts (query.c:404)
min(a, b) == IF a < b THEN a ELSE b

\* faulty variant: the new list's count is kept, not the minimum
RECURSIVE get_intersection_keeps_rank(_, _)
get_intersection_keeps_rank(qp1, qp2) ==
  IF qp1 = <<>> THEN <<>>
  ELSE IF qsearch(qp2, Head(qp1).id) # 0
       THEN <<Head(qp1)>> \o get_intersection_keeps_rank(Tail(qp1), qp2)
       ELSE get_intersection_keeps_rank(Tail(qp1), qp2)

\* faulty variant: the test of the search is inverted, the docs of qp1
\* that are not in qp2 are kept
RECURSIVE get_intersection_keeps_unmatched(_, _)
get_intersection_keeps_unmatched(qp1, qp2) ==
  IF qp1 = <<>> THEN <<>>
  ELSE IF qsearch(qp2, Head(qp1).id) = 0
       THEN <<Head(qp1)>> \o get_intersection_keeps_unmatched(Tail(qp1), qp2)
       ELSE get_intersection_keeps_unmatched(Tail(qp1), qp2)

\* query.c:398-409 the loop of get_intersection: qp1 is drained from its
\* front, a doc found in qp2 goes to intersect with the smaller count
RECURSIVE intersect_loop(_, _, _)
intersect_loop(qp1, qp2, intersect) ==
  IF qp1 = <<>> THEN intersect
  ELSE LET doc == qget_data(qp1)
           dp == qsearch(qp2, doc.id)
       IN  IF dp # 0
           THEN intersect_loop(qget_rest(qp1), qp2,
                  qput(intersect,
                       [doc EXCEPT !.word_count =
                                     min(qp2[dp].word_count, doc.word_count)]))
           ELSE intersect_loop(qget_rest(qp1), qp2, intersect)

\* query.c:390-414 get_intersection (qp1 is closed and qp2 freed)
get_intersection(qp1, qp2) == intersect_loop(qp1, qp2, <<>>)

\* query.c:424-438 the first loop of get_union: qp2 is drained into tmp,
\* a doc already in qp1 has the count added, another is appended to qp1
RECURSIVE union_loop(_, _, _)
union_loop(qp1, qp2, tmp) ==
  IF qp2 = <<>> THEN [qp1 |-> qp1, qp2 |-> qp2, tmp |-> tmp]
  ELSE LET dp == qget_data(qp2)
           doc == qsearch(qp1, dp.id)
       IN  IF doc # 0
           THEN union_loop(
                  [qp1 EXCEPT ![doc].word_count = @ + dp.word_count],
                  qget_rest(qp2), qput(tmp, dp))
           ELSE union_loop(qput(qp1, init_doc(dp.id, dp.word_count)),
                           qget_rest(qp2), qput(tmp, dp))

\* query.c:441-442 the second loop of get_union: tmp is drained into qp2
RECURSIVE restore_loop(_, _)
restore_loop(qp2, tmp) ==
  IF tmp = <<>> THEN qp2
  ELSE restore_loop(qput(qp2, qget_data(tmp)), qget_rest(tmp))

\* faulty variant: qp2 is left drained
get_union_no_restore(qp1, qp2) ==
  [qp1 |-> union_loop(qp1, qp2, <<>>).qp1, qp2 |-> <<>>]

\* faulty variant: a doc of qp2 already in qp1 keeps qp1's count
get_union_no_sum(qp1, qp2) ==
  [qp1 |-> qp1 \o SelectSeq(union_loop(<<>>, qp2, <<>>).qp1,
                            LAMBDA d : qsearch(qp1, d.id) = 0),
   qp2 |-> qp2]

\* query.c:416-445 get_union: the list returned (qp1, changed in place)
\* and what qp2 holds afterwards
get_union(qp1, qp2) ==
  LET drained == union_loop(qp1, qp2, <<>>)
  IN  [qp1 |-> drained.qp1, qp2 |-> restore_loop(drained.qp2, drained.tmp)]

(* ------------------------ the querier's inputs ------------------------ *)

\* a query line has at most this many words
MaxQueryWords == 4
\* the lists combined on their own hold docs 1..MaxListDocs
MaxListDocs == 2
\* with counts 1..MaxCount
MaxCount == 2

dartmouth == <<"d", "a", "r", "t", "m", "o", "u", "t", "h">>
computer == <<"c", "o", "m", "p", "u", "t", "e", "r">>
science == <<"s", "c", "i", "e", "n", "c", "e">>

\* the words typed: terms, operators, an operator with a capital letter,
\* a short word and a short word with a digit
Vocabulary ==
  {dartmouth, computer, science, and, or, <<"O", "r">>, <<"a">>,
   <<"a", "4">>}

RECURSIVE JoinWords(_)
JoinWords(ws) ==
  IF Len(ws) = 1 THEN ws[1] ELSE ws[1] \o <<" ">> \o JoinWords(Tail(ws))

\* lines with tabs, doubled, leading and trailing delimiters
SpacedQueries ==
  {<<" ">>,
   <<" ", "\t">> \o science \o <<" ">>,
   computer \o <<"\t">> \o science,
   dartmouth \o <<" ", " ">> \o or \o <<"\t", " ">> \o science \o <<" ">>}

\* lines with a digit or a sign in a long word, first or last
DigitQueries ==
  {<<"s", "c", "1", "e", "n", "c", "e">>,
   dartmouth \o <<" ">> \o computer \o <<"-">> \o science,
   <<"4", "0", "4", " ">> \o science \o <<" ", "o", "r", " ">> \o computer}

\* lines with capital letters in operators and terms
CapitalQueries ==
  {dartmouth \o <<" ", "A", "N", "D", " ">> \o computer,
   <<"S", "c", "i", "e", "n", "c", "e", " ", "o", "R", " ">> \o computer
     \o <<" ", "a", "N", "d", " ">>
     \o <<"D", "A", "R", "T", "M", "O", "U", "T", "H">>,
   <<"A", "n", "d", " ">> \o science,
   dartmouth \o <<" ", "A", "N", "D", " ", "a", "4">>}

\* the non-empty lines get_input can read
Queries ==
  {JoinWords(ws) : ws \in UNION {[1 .. n -> Vocabulary] :
                                   n \in 1 .. MaxQueryWords}}
    \cup SpacedQueries \cup DigitQueries \cup CapitalQueries

\* an index file and the page directory it was built from: page 1 holds
\* dartmouth x3 and computer x1, page 2 computer x2 and science x5
CorpusTwoPages ==
  [index |-> (dartmouth :> <<new_doc(1, 3)>>)
               @@ (computer :> <<new_doc(1, 1), new_doc(2, 2)>>)
               @@ (science :> <<new_doc(2, 5)>>),
   pagedir |-> (1 :> [url |-> "u1", title |-> "t1", content |-> "c1"])
                 @@ (2 :> [url |-> "u2", title |-> NULL_STRING,
                           content |-> "c2"])]

\* three pages, no page has science, the file of page 3 is gone
CorpusThreePages ==
  [index |-> (dartmouth :> <<new_doc(1, 2), new_doc(2, 2), new_doc(3, 1)>>)
               @@ (computer :> <<new_doc(2, 1), new_doc(3, 4)>>),
   pagedir |-> (1 :> [url |-> "u1", title |-> "t1", content |-> "c1"])
                 @@ (2 :> [url |-> "u2", title |-> "t2",
                           content |-> NULL_STRING])]

Corpora == {CorpusTwoPages, CorpusThreePages}

\* what a read below the stack's first slot may find
GarbageLists == {<<>>, <<init_doc(1, 1)>>}

(* ------------------------- the querier's steps ------------------------ *)

\* nothing printed yet in this turn of the loop
NothingPrinted == [invalid |-> 0, listing |-> <<>>]

\* stack[k] = v: slot k written, the slots below it kept (those above it
\* are dead); a write below slot 0 does not reach the array
write(stk, k, v) ==
  IF k < 0 THEN <<>> ELSE Append(SubSeq(stk, 1, k), v)

\* the lists a read of slot k can yield
Readable(stk, k) ==
  IF k >= 0 /\ k < Len(stk) THEN {stk[k + 1]} ELSE GarbageLists

\* the crawler has run and is over when the querier starts
CrawlerOver ==
  /\ web = WebChain /\ max_depth = 0 /\ qp = <<>>
  /\ hp = [u \in AllURLs |-> 0]
  /\ pages_added = 1 /\ pages_retrieved = 1 /\ id = 2
  /\ crawl_mutex = FREE /\ files = <<>>
  /\ main_pc = "done" /\ exit_status = "success"
  /\ pc = [t \in Threads |-> "done"]
  /\ curr = [t \in Threads |-> NULL]
  /\ pos = [t \in Threads |-> 0]
  /\ status = [t \in Threads |-> 0]
  /\ rd = [t \in Threads |-> NoRead]
  /\ fetch_failed = {}

\* query.c:144-160 the arguments are parsed and the index is loaded
QueryInit ==
  /\ CrawlerOver
  /\ IndexerNotStarted
  /\ UtilsNotStarted
  /\ \E corpus \in Corpora :
       /\ pagedir = corpus.pagedir
       /\ index = corpus.index
       /\ loaded = corpus.index
  /\ query = <<>> /\ tokenized_query = <<>> /\ num_tokens = 0 /\ scan = 0
  /\ stack = <<>> /\ top = 0 - 1 /\ curr_operator = <<>>
  /\ ranked_docs = <<>> /\ out = NothingPrinted /\ underflow = FALSE
  /\ earlier = FALSE
  /\ query_pc = "head"

\* faulty variant: the pending operator of the last query is kept
LoopHeadKeepsOperator ==
  /\ query_pc = "head"
  /\ num_tokens' = 0 /\ top' = 0 - 1
  /\ query' = <<>> /\ tokenized_query' = <<>> /\ scan' = 0
  /\ out' = NothingPrinted
  /\ earlier' = (earlier \/ query # <<>>)
  /\ query_pc' = "input"
  /\ UNCHANGED <<crawler, indexer, utils, pagedir, index, loaded, stack, curr_operator,
                 ranked_docs, underflow>>

\* query.c:162-166 the head of the loop: num_tokens, top and curr_operator
\* start afresh (the line, the stream and the output of the last turn are
\* forgotten here)
LoopHead ==
  /\ query_pc = "head"
  /\ num_tokens' = 0 /\ top' = 0 - 1 /\ curr_operator' = <<>>
  /\ query' = <<>> /\ tokenized_query' = <<>> /\ scan' = 0
  /\ out' = NothingPrinted
  /\ earlier' = (earlier \/ query # <<>>)
  /\ query_pc' = "input"
  /\ UNCHANGED <<crawler, indexer, utils, pagedir, index, loaded, stack, ranked_docs,
                 underflow>>

\* query.c:169-172,260-265 get_input meets the end of the input: exit
EndOfInput ==
  /\ query_pc = "input"
  /\ query_pc' = "exit"
  /\ UNCHANGED <<crawler, indexer, utils, earlier, pagedir, index, loaded, query,
                 tokenized_query, num_tokens, scan, stack, top, curr_operator, ranked_docs,
                 out, underflow>>

\* query.c:175-178 an empty line: nothing is printed
EmptyLine ==
  /\ query_pc = "input"
  /\ query' = <<>>
  /\ query_pc' = "head"
  /\ UNCHANGED <<crawler, indexer, utils, earlier, pagedir, index, loaded,
                 tokenized_query, num_tokens, scan, stack, top, curr_operator, ranked_docs,
                 out, underflow>>

\* query.c:184 the test on the token stream
accepted(tq, n) == tq # <<>> /\ validate_query(tq, n)

\* query.c:181-194 a line is read and rejected: one [invalid query] line
InvalidQuery ==
  /\ query_pc = "input"
  /\ \E q \in Queries :
       LET t == tokenize_query(q)
       IN  /\ ~accepted(t.tokenized_query, t.num_tokens)
           /\ query' = q
           /\ tokenized_query' = t.tokenized_query
           /\ num_tokens' = t.num_tokens
  /\ out' = [out EXCEPT !.invalid = @ + 1]
  /\ query_pc' = "head"
  /\ UNCHANGED <<crawler, indexer, utils, earlier, pagedir, index, loaded, scan, stack, top,
                 curr_operator, ranked_docs, underflow>>

\* query.c:181-184,197 a line is read and accepted: the scan starts
ValidQuery ==
  /\ query_pc = "input"
  /\ \E q \in Queries :
       LET t == tokenize_query(q)
       IN  /\ accepted(t.tokenized_query, t.num_tokens)
           /\ query' = q
           /\ tokenized_query' = t.tokenized_query
           /\ num_tokens' = t.num_tokens
  /\ scan' = 0
  /\ query_pc' = "scan"
  /\ UNCHANGED <<crawler, indexer, utils, earlier, pagedir, index, loaded, stack, top,
                 curr_operator,
                 ranked_docs, out, underflow>>

\* faulty variant: once and is pending, an or does not replace it
ScanOperatorKeepsAnd ==
  /\ query_pc = "scan" /\ scan < num_tokens
  /\ is_operator(tokenized_query[scan + 1])
  /\ curr_operator' = IF curr_operator = and THEN and
                      ELSE tokenized_query[scan + 1]
  /\ scan' = scan + 1
  /\ UNCHANGED <<crawler, indexer, utils, earlier, pagedir, index, loaded, query,
                 tokenized_query, num_tokens, stack, top, ranked_docs, out, underflow,
                 query_pc>>

\* query.c:199-206 the token is an operator: it becomes the pending one
ScanOperator ==
  /\ query_pc = "scan" /\ scan < num_tokens
  /\ is_operator(tokenized_query[scan + 1])
  /\ curr_operator' = tokenized_query[scan + 1]
  /\ scan' = scan + 1
  /\ UNCHANGED <<crawler, indexer, utils, earlier, pagedir, index, loaded, query,
                 tokenized_query, num_tokens, stack, top, ranked_docs, out, underflow,
                 query_pc>>

\* faulty variant: a term with no entry in the index pushes nothing
ScanTermAbsentPushesNothing ==
  /\ query_pc = "scan" /\ scan < num_tokens
  /\ ~is_operator(tokenized_query[scan + 1])
  /\ LET token == tokenized_query[scan + 1]
         ep == token \in DOMAIN index
         tmp == get_union(<<>>, index[token]).qp1
         pushed == write(stack, top + 1, tmp)
     IN  IF ~ep
         THEN UNCHANGED <<stack, top, underflow>>
         ELSE IF curr_operator = and
         THEN \E qp2 \in Readable(pushed, top) :
                /\ stack' = write(pushed, top, get_intersection(tmp, qp2))
                /\ top' = top
                /\ underflow' = (underflow \/ top < 0)
         ELSE /\ stack' = pushed
              /\ top' = top + 1
              /\ UNCHANGED underflow
  /\ scan' = scan + 1
  /\ UNCHANGED <<crawler, indexer, utils, earlier, pagedir, index, loaded, query,
                 tokenized_query, num_tokens, curr_operator, ranked_docs,
                 out, query_pc>>

\* query.c:208-223 the token is a term: a copy of its postings (an empty
\* list when the index has no entry) is pushed, and with and pending the
\* two lists on top are replaced by their intersection
ScanTerm ==
  /\ query_pc = "scan" /\ scan < num_tokens
  /\ ~is_operator(tokenized_query[scan + 1])
  /\ LET token == tokenized_query[scan + 1]
         ep == token \in DOMAIN index
         copied == get_union(<<>>, index[token])
         tmp == IF ep THEN copied.qp1 ELSE <<>>
         pushed == write(stack, top + 1, tmp)
     IN  /\ index' = IF ep THEN [index EXCEPT ![token] = copied.qp2]
                         ELSE index
         /\ IF curr_operator = and
            THEN \E qp2 \in Readable(pushed, top) :
                   /\ stack' = write(pushed, top,
                                     get_intersection(tmp, qp2))
                   /\ top' = top
                   /\ underflow' = (underflow \/ top < 0)
            ELSE /\ stack' = pushed
                 /\ top' = top + 1
                 /\ UNCHANGED underflow
  /\ scan' = scan + 1
  /\ UNCHANGED <<crawler, indexer, utils, earlier, pagedir, loaded, query, tokenized_query,
                 num_tokens, curr_operator, ranked_docs, out, query_pc>>

\* query.c:197 the for loop is over
ScanDone ==
  /\ query_pc = "scan" /\ scan = num_tokens
  /\ query_pc' = "union"
  /\ UNCHANGED <<crawler, indexer, utils, earlier, pagedir, index, loaded, query,
                 tokenized_query, num_tokens, scan, stack, top, curr_operator, ranked_docs,
                 out, underflow>>

\* query.c:227-233 the two lists on top are replaced by their union
UnionStep ==
  /\ query_pc = "union" /\ top > 0
  /\ \E qp1 \in Readable(stack, top), qp2 \in Readable(stack, top - 1) :
       stack' = write(stack, top - 1, get_union(qp1, qp2).qp1)
  /\ top' = top - 1
  /\ UNCHANGED <<crawler, indexer, utils, earlier, pagedir, index, loaded, query,
                 tokenized_query, num_tokens, scan, curr_operator, ranked_docs, out,
                 underflow, query_pc>>

\* query.c:227,234 the while loop is over: ranked_docs = stack[top]
UnionDone ==
  /\ query_pc = "union" /\ top <= 0
  /\ \E list \in Readable(stack, top) : ranked_docs' = list
  /\ underflow' = (underflow \/ top < 0)
  /\ query_pc' = "rank"
  /\ UNCHANGED <<crawler, indexer, utils, earlier, pagedir, index, loaded, query,
                 tokenized_query, num_tokens, scan, stack, top, curr_operator, out>>

\* pageio.c pageload as get_metadata uses it: is there a page file
pageload(dir, doc_id) == doc_id \in DOMAIN dir

\* query.c:454-506 the first loop of get_metadata: every doc goes to tmp,
\* with the url, title and description of its page when the page loads
RECURSIVE metadata_loop(_, _, _)
metadata_loop(docs, dir, tmp) ==
  IF docs = <<>> THEN tmp
  ELSE LET dp == qget_data(docs)
           found == IF pageload(dir, dp.id)
                    THEN [dp EXCEPT !.url = dir[dp.id].url,
                                    !.title = dir[dp.id].title,
                                    !.content = dir[dp.id].content]
                    ELSE dp
       IN  metadata_loop(qget_rest(docs), dir, qput(tmp, found))

\* query.c:447-511 get_metadata: the list afterwards (tmp is drained back)
get_metadata(docs, dir) == restore_loop(<<>>, metadata_loop(docs, dir, <<>>))

\* faulty variant: the smaller count goes first
comparator_ascending(a, b) ==
  IF a.word_count < b.word_count THEN 0 - 1
  ELSE IF a.word_count > b.word_count THEN 1
  ELSE 0

\* query.c:581-597 comparator: a goes before b, after b, or either way
comparator(a, b) ==
  IF a.word_count < b.word_count THEN 1
  ELSE IF a.word_count > b.word_count THEN 0 - 1
  ELSE 0

\* query.c:599-626 sort_queue: qsort is not stable, so it may leave any
\* arrangement of the docs in which no doc is before one that the
\* comparator puts first
sort_queue(docs) ==
  {sorted \in {[k \in DOMAIN docs |-> docs[f[k]]] :
                 f \in Permutations(DOMAIN docs)} :
     \A j, k \in DOMAIN sorted : j < k => comparator(sorted[j], sorted[k]) <= 0}

\* what printf writes for %s: glibc writes (null) for a null pointer
printf_s(str) == IF str = NULL_STRING THEN "(null)" ELSE str

\* query.c:245-246 the two printf calls for one doc: the fields of the
\* lines written
print_doc(doc) ==
  [title |-> printf_s(doc.title), word_count |-> doc.word_count,
   id |-> doc.id, url |-> printf_s(doc.url),
   content |-> printf_s(doc.content)]

\* query.c:237-256 metadata, sort, the listing is printed from the front of
\* the list, then the stream and the list are freed
PrintResults ==
  /\ query_pc = "rank"
  /\ \E sorted \in sort_queue(get_metadata(ranked_docs, pagedir)) :
       out' = [out EXCEPT !.listing =
                 [k \in DOMAIN sorted |-> print_doc(sorted[k])]]
  /\ ranked_docs' = <<>>
  /\ stack' = <<>>
  /\ query_pc' = "head"
  /\ UNCHANGED <<crawler, indexer, utils, earlier, pagedir, index, loaded, query,
                 tokenized_query, num_tokens, scan, top, curr_operator, underflow>>

QueryNext ==
  \/ LoopHead \/ EndOfInput \/ EmptyLine \/ InvalidQuery \/ ValidQuery
  \/ ScanOperator \/ ScanTerm \/ ScanDone
  \/ UnionStep \/ UnionDone \/ PrintResults

QuerySpec == QueryInit /\ [][QueryNext]_vars

(* ------------------ the two combinations on their own ----------------- *)

ListDocIds == 1 .. MaxListDocs

\* the result lists: every doc id at most once, in any order
ResultLists ==
  {list \in UNION {[1 .. n -> {init_doc(d, c) : d \in ListDocIds,
                                                c \in 1 .. MaxCount}] :
                     n \in 0 .. MaxListDocs} :
     \A j, k \in DOMAIN list : list[j].id = list[k].id => j = k}

\* two lists are on the stack, the one pushed last on top
CombineInit ==
  /\ CrawlerOver
  /\ IndexerNotStarted
  /\ UtilsNotStarted
  /\ pagedir = <<>> /\ index = <<>> /\ loaded = <<>>
  /\ query = <<>> /\ tokenized_query = <<>> /\ num_tokens = 0 /\ scan = 0
  /\ stack \in {<<qp2, qp1>> : qp1 \in ResultLists, qp2 \in ResultLists}
  /\ top = 1 /\ curr_operator = <<>>
  /\ ranked_docs = <<>> /\ out = NothingPrinted /\ underflow = FALSE
  /\ earlier = FALSE
  /\ query_pc = "combine"

\* query.c:220-222 qp1 = stack[top--]; qp2 = stack[top--];
\* get_intersection(qp1, qp2), the lists kept on show beside the outcome
ApplyIntersection ==
  /\ query_pc = "combine"
  /\ ranked_docs' = get_intersection(stack[top + 1], stack[top])
  /\ query_pc' = "intersected"
  /\ UNCHANGED <<crawler, indexer, utils, earlier, pagedir, index, loaded, query,
                 tokenized_query, num_tokens, scan, stack, top, curr_operator, out,
                 underflow>>

\* query.c:229-231 qp1 = stack[top--]; qp2 = stack[top--];
\* get_union(qp1, qp2), the lists kept on show beside the outcome
ApplyUnion ==
  /\ query_pc = "combine"
  /\ ranked_docs' = get_union(stack[top + 1], stack[top]).qp1
  /\ query_pc' = "united"
  /\ UNCHANGED <<crawler, indexer, utils, earlier, pagedir, index, loaded, query,
                 tokenized_query, num_tokens, scan, stack, top, curr_operator, out,
                 underflow>>

CombineNext == ApplyIntersection \/ ApplyUnion

CombineSpec == CombineInit /\ [][CombineNext]_vars

(* --------------------- notions about the querier ---------------------- *)

\* the doc ids of the corpora
DocIds == 1 .. 3

\* how many entries of a list have doc id d
Entries(list, d) == Cardinality({k \in DOMAIN list : list[k].id = d})

\* the score of doc d in a list without repeated ids, 0 when it is not there
ScoreIn(list, d) ==
  IF \E k \in DOMAIN list : list[k].id = d
  THEN list[CHOOSE k \in DOMAIN list : list[k].id = d].word_count
  ELSE 0

\* no doc id is twice in the list
UniqueIds(list) == \A d \in DocIds : Entries(list, d) <= 1

\* the count of word w in doc d according to index ix, 0 for none
CountOf(ix, w, d) == IF w \in DOMAIN ix THEN ScoreIn(ix[w], d) ELSE 0

\* the token stream cut at its or tokens, the and tokens left out: the
\* maximal runs of terms joined by and
RECURSIVE RunsFrom(_, _)
RunsFrom(tq, run) ==
  IF tq = <<>> THEN <<run>>
  ELSE IF Head(tq) = or THEN <<run>> \o RunsFrom(Tail(tq), <<>>)
  ELSE IF Head(tq) = and THEN RunsFrom(Tail(tq), run)
  ELSE RunsFrom(Tail(tq), Append(run, Head(tq)))

Runs(tq) == RunsFrom(tq, <<>>)

\* the least count of the run's terms in doc d (0: some term is not in d)
RunScore(ix, run, d) ==
  CHOOSE m \in {CountOf(ix, run[k], d) : k \in DOMAIN run} :
    \A k \in DOMAIN run : m <= CountOf(ix, run[k], d)

RECURSIVE SumOfRuns(_, _, _)
SumOfRuns(ix, runs, d) ==
  IF runs = <<>> THEN 0
  ELSE RunScore(ix, Head(runs), d) + SumOfRuns(ix, Tail(runs), d)

\* the score a valid stream gives doc d when and binds tighter than or
PrecedenceScore(ix, tq, d) == SumOfRuns(ix, Runs(tq), d)

(* ------------------------ claims on the querier ----------------------- *)

\* C12: and has precedence over or: the evaluated list of a valid stream
\* holds a doc iff some maximal run of and-joined terms has the doc in all
\* its postings, once, and the doc's score is the sum over those runs of
\* the least count of the run's terms
C12_AndBindsTighterThanOr ==
  query_pc = "rank" =>
    /\ UniqueIds(ranked_docs)
    /\ \A d \in DocIds :
         ScoreIn(ranked_docs, d) = PrecedenceScore(loaded, tokenized_query, d)

\* science or dartmouth and computer on the two-page corpus: evaluated
\* left to right doc 2 would score 2, with precedence it scores 5
C12_Witness ==
  /\ query_pc = "rank"
  /\ tokenized_query = <<science, or, dartmouth, and, computer>>
  /\ loaded = CorpusTwoPages.index
  /\ ScoreIn(ranked_docs, 2) = 5 /\ ScoreIn(ranked_docs, 1) = 1

\* C13: the intersection of result lists A and B has one entry for every
\* doc id that is in both and none for any other, and the entry's score is
\* the smaller of the doc's scores in A and B
C13_IntersectionIsMinOfBoth ==
  query_pc = "intersected" =>
    LET A == stack[top + 1]
        B == stack[top]
    IN  \A d \in ListDocIds :
          IF Entries(A, d) > 0 /\ Entries(B, d) > 0
          THEN /\ Entries(ranked_docs, d) = 1
               /\ ScoreIn(ranked_docs, d) <= ScoreIn(A, d)
               /\ ScoreIn(ranked_docs, d) <= ScoreIn(B, d)
               /\ ScoreIn(ranked_docs, d) \in {ScoreIn(A, d), ScoreIn(B, d)}
          ELSE Entries(ranked_docs, d) = 0

\* doc 2 is in both lists with the smaller score in the older one, doc 1
\* is in one list only
C13_Witness ==
  /\ query_pc = "intersected"
  /\ stack[top + 1] = <<init_doc(1, 2), init_doc(2, 2)>>
  /\ stack[top] = <<init_doc(2, 1)>>
  /\ ranked_docs = <<init_doc(2, 1)>>

\* C14: the union of result lists A and B has one entry for every doc id
\* that is in A or in B and none for any other; a doc in both scores the
\* sum of its two scores, a doc in one list keeps that list's score
C14_UnionIsSumOfEither ==
  query_pc = "united" =>
    LET A == stack[top + 1]
        B == stack[top]
    IN  \A d \in ListDocIds :
          /\ Entries(ranked_docs, d) =
               (IF Entries(A, d) > 0 \/ Entries(B, d) > 0 THEN 1 ELSE 0)
          /\ ScoreIn(ranked_docs, d) = ScoreIn(A, d) + ScoreIn(B, d)

\* doc 2 is in both lists, doc 1 in the older list only
C14_Witness ==
  /\ query_pc = "united"
  /\ stack[top + 1] = <<init_doc(2, 2)>>
  /\ stack[top] = <<init_doc(1, 1), init_doc(2, 1)>>
  /\ ranked_docs = <<init_doc(2, 3), init_doc(1, 1)>>

\* the three conditions on a token stream: it is not empty, it neither
\* starts nor ends with an operator, no operator follows an operator
WellFormed(tq) ==
  /\ tq # <<>>
  /\ ~is_operator(tq[1]) /\ ~is_operator(tq[Len(tq)])
  /\ \A k \in 1 .. (Len(tq) - 1) :
       ~(is_operator(tq[k]) /\ is_operator(tq[k + 1]))

\* a line has been read in this turn of the loop
LineRead == query # <<>>

\* C15: a line read is accepted iff its token stream meets the three
\* conditions; any other line read, one whose tokens were all dropped
\* included, gets exactly one [invalid query] line and no listing, and the
\* querier is back at the head of its loop
C15_AcceptedIffWellFormed ==
  /\ query_pc \in {"scan", "union", "rank"} =>
       WellFormed(tokenized_query) /\ out = NothingPrinted
  /\ query_pc = "head" /\ LineRead /\ WellFormed(tokenized_query) =>
       out.invalid = 0
  /\ LineRead /\ ~WellFormed(tokenized_query) =>
       query_pc = "head" /\ out = [invalid |-> 1, listing |-> <<>>]

\* the line a a: both words are dropped, the stream is empty
C15_Witness ==
  /\ query = <<"a", " ", "a">>
  /\ tokenized_query = <<>>
  /\ query_pc = "head"
  /\ out = [invalid |-> 1, listing |-> <<>>]

\* the line with every capital letter replaced by its small letter
LowerCase(line) == [k \in DOMAIN line |-> tolower(line[k])]

\* some word of the line has a character that is not a letter
HasNonLetter(line) ==
  \E k \in DOMAIN line : line[k] \notin Letters \cup Delimiters

\* C16: a line with a character that is not a letter in any of its words
\* is rejected whole, also when that word is shorter than 3 characters;
\* the other lines get the token stream of their lowercased form, all in
\* small letters, so that operators are recognised in any letter case
C16_NonLetterRejectsCaseIgnored ==
  LineRead =>
    IF HasNonLetter(query)
    THEN /\ tokenized_query = <<>>
         /\ query_pc = "head"
         /\ out = [invalid |-> 1, listing |-> <<>>]
    ELSE /\ tokenized_query = tokenize_query(LowerCase(query)).tokenized_query
         /\ \A k \in DOMAIN tokenized_query :
              tokenized_query[k] = LowerCase(tokenized_query[k])

\* the line dartmouth AND a4: the two-character word a4 is not dropped,
\* it makes the line invalid
C16_Witness ==
  /\ query = dartmouth \o <<" ", "A", "N", "D", " ", "a", "4">>
  /\ query_pc = "head"
  /\ out = [invalid |-> 1, listing |-> <<>>]

\* the words of a line that are emitted: lowercased, the short ones that
\* are not or left out
Emitted(line) ==
  SelectSeq(strtok(LowerCase(line)), LAMBDA w : Len(w) >= 3 \/ w = or)

\* a stream with an and put between every two neighbours that are both
\* terms, and nowhere else
RECURSIVE WithImplicitAnd(_)
WithImplicitAnd(ws) ==
  IF Len(ws) <= 1 THEN ws
  ELSE <<ws[1]>>
         \o (IF ~is_operator(ws[1]) /\ ~is_operator(ws[2])
             THEN <<and>> ELSE <<>>)
         \o WithImplicitAnd(Tail(ws))

\* the terms of three letters or more that are typed
LongTerms == {w \in Vocabulary : Len(w) >= 3 /\ ~is_operator(LowerCase(w))}

\* C17: the token stream is the emitted words with an and between every
\* two neighbouring terms and nowhere else; so the line t1 t2 has the
\* stream of t1 and t2, and its evaluated list has the scores of t1 and t2
C17_ImplicitAnd ==
  /\ LineRead /\ ~HasNonLetter(query) =>
       tokenized_query = WithImplicitAnd(Emitted(query))
  /\ \A t1, t2 \in LongTerms :
       query = t1 \o <<" ">> \o t2 =>
         /\ tokenized_query =
              tokenize_query(t1 \o <<" ">> \o and \o <<" ">> \o t2)
                .tokenized_query
         /\ tokenized_query = <<LowerCase(t1), and, LowerCase(t2)>>
         /\ query_pc = "rank" =>
              \A d \in DocIds :
                ScoreIn(ranked_docs, d) =
                  PrecedenceScore(loaded, <<LowerCase(t1), and,
                                            LowerCase(t2)>>, d)

\* the line dartmouth computer on the two-page corpus: only page 1 has
\* both words
C17_Witness ==
  /\ query = dartmouth \o <<" ">> \o computer
  /\ tokenized_query = <<dartmouth, and, computer>>
  /\ query_pc = "rank"
  /\ loaded = CorpusTwoPages.index
  /\ ranked_docs = <<init_doc(1, 1)>>

\* the line with its short words other than or taken out
WithoutShortWords(line) ==
  LET kept == SelectSeq(strtok(line),
                        LAMBDA w : Len(w) >= 3 \/ LowerCase(w) = or)
  IN  IF kept = <<>> THEN <<>> ELSE JoinWords(kept)

\* C18: short words other than or are dropped before implicit-and
\* insertion and validation: a line has the token stream of the line
\* without them, t1 a t2 is evaluated as t1 and t2, and t1 or a has the
\* stream t1 or and is rejected
C18_ShortWordsDroppedFirst ==
  /\ LineRead /\ ~HasNonLetter(query) =>
       tokenized_query =
         tokenize_query(WithoutShortWords(query)).tokenized_query
  /\ \A t1, t2 \in LongTerms :
       query = t1 \o <<" ", "a", " ">> \o t2 =>
         /\ tokenized_query = <<LowerCase(t1), and, LowerCase(t2)>>
         /\ query_pc = "rank" =>
              \A d \in DocIds :
                ScoreIn(ranked_docs, d) =
                  PrecedenceScore(loaded, tokenize_query(t1 \o <<" ">> \o t2)
                                            .tokenized_query, d)
  /\ \A t1 \in LongTerms :
       query = t1 \o <<" ">> \o or \o <<" ", "a">> =>
         /\ tokenized_query = <<LowerCase(t1), or>>
         /\ query_pc = "head"
         /\ out = [invalid |-> 1, listing |-> <<>>]

\* the line dartmouth or a is rejected with the stream dartmouth or
C18_Witness ==
  /\ query = dartmouth \o <<" ">> \o or \o <<" ", "a">>
  /\ tokenized_query = <<dartmouth, or>>
  /\ query_pc = "head"
  /\ out = [invalid |-> 1, listing |-> <<>>]

\* C19: whatever lines have been read, the index is as it was loaded:
\* the same words, and for every word the same postings with the same doc
\* ids and counts in the same order
C19_IndexUnchanged == index = loaded

\* in a later turn of the loop, science or dartmouth has been evaluated on
\* the corpus whose index has dartmouth and no science
C19_Witness ==
  /\ earlier
  /\ query_pc = "rank"
  /\ tokenized_query = <<science, or, dartmouth>>
  /\ loaded = CorpusThreePages.index
  /\ ranked_docs = <<init_doc(1, 2), init_doc(2, 2), init_doc(3, 1)>>
  /\ index = loaded

\* a querier just started: nothing on the stack, no operator pending
evaluate_start(ix) ==
  [index |-> ix, stack |-> <<>>, top |-> 0 - 1, curr_operator |-> <<>>]

\* query.c:199-223 one turn of the for loop in a querier just started
evaluate_token(st, token) ==
  IF is_operator(token) THEN [st EXCEPT !.curr_operator = token]
  ELSE LET ep == token \in DOMAIN st.index
           copied == get_union(<<>>, st.index[token])
           tmp == IF ep THEN copied.qp1 ELSE <<>>
           ix == IF ep THEN [st.index EXCEPT ![token] = copied.qp2]
                 ELSE st.index
       IN  IF st.curr_operator = and
           THEN [st EXCEPT
                   !.index = ix,
                   !.stack = write(st.stack, st.top,
                                   get_intersection(tmp, st.stack[st.top + 1]))]
           ELSE [st EXCEPT !.index = ix,
                           !.stack = write(st.stack, st.top + 1, tmp),
                           !.top = st.top + 1]

RECURSIVE evaluate_scan(_, _)
evaluate_scan(st, tq) ==
  IF tq = <<>> THEN st
  ELSE evaluate_scan(evaluate_token(st, Head(tq)), Tail(tq))

\* query.c:227-233 the while loop in a querier just started
RECURSIVE evaluate_union(_)
evaluate_union(st) ==
  IF st.top > 0
  THEN evaluate_union(
         [st EXCEPT !.stack = write(st.stack, st.top - 1,
                                    get_union(st.stack[st.top + 1],
                                              st.stack[st.top]).qp1),
                    !.top = st.top - 1])
  ELSE st

\* query.c:197-234 the list a querier just started evaluates for a valid
\* line on index ix
evaluate(ix, line) ==
  LET st == evaluate_union(
              evaluate_scan(evaluate_start(ix),
                            tokenize_query(line).tokenized_query))
  IN  st.stack[st.top + 1]

\* the doc ids of a list with their scores
Scores(list) == {<<list[k].id, list[k].word_count>> : k \in DOMAIN list}

\* C20: the list evaluated for an accepted line does not depend on the
\* lines read before it: the scan starts with an empty stack, top -1, no
\* pending operator and the index as loaded, and the list has the doc ids
\* and scores that a querier just started evaluates for the line
C20_ResultIndependentOfHistory ==
  /\ query_pc = "scan" /\ scan = 0 =>
       stack = <<>> /\ top = 0 - 1 /\ curr_operator = <<>> /\ index = loaded
  /\ query_pc = "rank" => Scores(ranked_docs) = Scores(evaluate(loaded, query))

\* in a later turn of the loop, computer or science and dartmouth has been
\* evaluated on the two-page corpus
C20_Witness ==
  /\ earlier
  /\ query_pc = "rank"
  /\ query = computer \o <<" ">> \o or \o <<" ">> \o science \o <<" ">>
               \o dartmouth
  /\ loaded = CorpusTwoPages.index
  /\ Scores(ranked_docs) = {<<1, 1>>, <<2, 2>>}

\* C21: the listing printed is the evaluated list in another order: every
\* result is printed once with its score and nothing else is printed, and
\* the scores do not go up from the first line to the last
C21_ListingIsSortedPermutation ==
  [][query_pc = "rank" =>
       /\ Len(out'.listing) = Len(ranked_docs)
       /\ \A d \in DocIds :
            /\ Entries(out'.listing, d) = Entries(ranked_docs, d)
            /\ ScoreIn(out'.listing, d) = ScoreIn(ranked_docs, d)
       /\ \A j, k \in DOMAIN out'.listing :
            j < k => out'.listing[j].word_count >= out'.listing[k].word_count
  ]_vars

\* computer on the two-page corpus: page 1 is first in the postings and
\* second in the listing
C21_Witness ==
  /\ query_pc = "head"
  /\ query = computer
  /\ loaded = CorpusTwoPages.index
  /\ Len(out.listing) = 2
  /\ out.listing[1].id = 2 /\ out.listing[1].word_count = 2
  /\ out.listing[2].id = 1 /\ out.listing[2].word_count = 1

\* the terms typed that have no entry in the loaded index
MissingTerms == {w \in LongTerms : w \notin DOMAIN loaded}

\* the doc ids and scores of the postings of term x
PostingScores(x) ==
  {<<d, CountOf(loaded, x, d)>> : d \in {e \in DocIds : CountOf(loaded, x, e) > 0}}

\* C22: a term with no entry in the index is no error and stands for an
\* empty list: the line is not reported invalid, the list pushed for the
\* term is empty, missing and x evaluates to nothing and missing or x to
\* the postings of x with their counts
C22_MissingTermIsEmptyList ==
  \A m \in MissingTerms :
    /\ query_pc = "scan" /\ scan = 1 /\ tokenized_query[1] = m =>
         stack = <<<<>>>> /\ top = 0
    /\ \A x \in LongTerms :
         /\ query = m \o <<" ">> \o and \o <<" ">> \o x =>
              /\ out.invalid = 0
              /\ query_pc = "rank" => ranked_docs = <<>>
              /\ query_pc = "head" => out.listing = <<>>
         /\ query = m \o <<" ">> \o or \o <<" ">> \o x =>
              /\ out.invalid = 0
              /\ query_pc = "rank" => Scores(ranked_docs) = PostingScores(x)
              /\ query_pc = "head" => Scores(out.listing) = PostingScores(x)

\* science or computer where no page has science: the two postings of
\* computer are listed
C22_Witness ==
  /\ loaded = CorpusThreePages.index
  /\ query = science \o <<" ">> \o or \o <<" ">> \o computer
  /\ query_pc = "head"
  /\ out.invalid = 0
  /\ Scores(out.listing) = {<<2, 1>>, <<3, 4>>}

\* C23 (as claimed): a result whose page file cannot be loaded is still
\* printed: the listing has every doc id of the evaluated list with its
\* score, and such a result is printed with an empty url, title and
\* description
C23_MissingPagePrintedEmpty ==
  query_pc = "head" /\ LineRead /\ out.invalid = 0 =>
    /\ Scores(out.listing) = Scores(evaluate(loaded, query))
    /\ \A k \in DOMAIN out.listing :
         ~pageload(pagedir, out.listing[k].id) =>
           /\ out.listing[k].url = ""
           /\ out.listing[k].title = ""
           /\ out.listing[k].content = ""

\* the doc ids and scores of a listing, line by line
ListingOf(listing) ==
  [k \in DOMAIN listing |-> <<listing[k].id, listing[k].word_count>>]

\* C24: on the two-page corpus, dartmouth computer or science is read as
\* (dartmouth and computer) or science and lists doc 2 with score 5, then
\* doc 1 with score 1; computer lists doc 2 with score 2, then doc 1 with
\* score 1; and dartmouth gets [invalid query]
C24_TwoPageCorpusExample ==
  loaded = CorpusTwoPages.index =>
    /\ query = dartmouth \o <<" ">> \o computer \o <<" ">> \o or
                 \o <<" ">> \o science =>
         /\ tokenized_query = <<dartmouth, and, computer, or, science>>
         /\ out.invalid = 0
         /\ query_pc = "head" => ListingOf(out.listing) = <<<<2, 5>>, <<1, 1>>>>
    /\ query = computer =>
         /\ out.invalid = 0
         /\ query_pc = "head" => ListingOf(out.listing) = <<<<2, 2>>, <<1, 1>>>>
    /\ query = and \o <<" ">> \o dartmouth =>
         /\ query_pc = "head"
         /\ out = [invalid |-> 1, listing |-> <<>>]

\* the listing of dartmouth computer or science has been printed
C24_Witness ==
  /\ loaded = CorpusTwoPages.index
  /\ query = dartmouth \o <<" ">> \o computer \o <<" ">> \o or
               \o <<" ">> \o science
  /\ query_pc = "head"
  /\ ListingOf(out.listing) = <<<<2, 5>>, <<1, 1>>>>

\* the line t1 op t2
Binary(t1, op, t2) == t1 \o <<" ">> \o op \o <<" ">> \o t2

\* C25: and and or are commutative: the list evaluated for t1 and t2 has
\* the doc ids and scores of the list evaluated for t2 and t1, and the
\* same for or
C25_OperatorsCommute ==
  query_pc = "rank" =>
    \A t1, t2 \in LongTerms :
      /\ query = Binary(t1, and, t2) =>
           Scores(ranked_docs) = Scores(evaluate(loaded, Binary(t2, and, t1)))
      /\ query = Binary(t1, or, t2) =>
           Scores(ranked_docs) = Scores(evaluate(loaded, Binary(t2, or, t1)))

\* dartmouth or computer on the three-page corpus: the list is in another
\* order than that of computer or dartmouth
C25_Witness ==
  /\ query_pc = "rank"
  /\ loaded = CorpusThreePages.index
  /\ query = Binary(dartmouth, or, computer)
  /\ ranked_docs = <<init_doc(2, 3), init_doc(3, 5), init_doc(1, 2)>>
  /\ ranked_docs # evaluate(loaded, Binary(computer, or, dartmouth))

\* the doc ids of a list
Ids(list) == {list[k].id : k \in DOMAIN list}

\* C26: and distributes over or at the level of doc ids: for result lists
\* A, B and C the doc ids of AND(A, OR(B, C)) are those of
\* OR(AND(A, B), AND(A, C)); here AND(A, B) or OR(A, B) is the list just
\* combined from the two lists on the stack and the third list is any
C26_AndDistributesOverOr ==
  LET A == stack[top + 1]
      B == stack[top]
  IN  /\ query_pc = "intersected" =>
           \A C \in ResultLists :
             Ids(get_intersection(A, get_union(B, C).qp1)) =
               Ids(get_union(ranked_docs, get_intersection(A, C)).qp1)
      /\ query_pc = "united" =>
           \A C \in ResultLists :
             Ids(get_intersection(C, ranked_docs)) =
               Ids(get_union(get_intersection(C, A),
                             get_intersection(C, B)).qp1)

\* A = {1, 2} meets B = {1}; with C = {1, 2} both sides have the doc ids
\* 1 and 2, doc 1 with score 1 on the left and 2 on the right
C26_Witness ==
  /\ query_pc = "intersected"
  /\ stack[top + 1] = <<init_doc(1, 1), init_doc(2, 1)>>
  /\ stack[top] = <<init_doc(1, 1)>>
  /\ ranked_docs = <<init_doc(1, 1)>>
  /\ LET C == <<init_doc(1, 1), init_doc(2, 2)>>
         lhs == get_intersection(stack[top + 1], get_union(stack[top], C).qp1)
         rhs == get_union(ranked_docs, get_intersection(stack[top + 1], C)).qp1
     IN  /\ Ids(lhs) = {1, 2} /\ Ids(rhs) = {1, 2}
         /\ Scores(lhs) # Scores(rhs)

(* ----------------------------- the indexer ---------------------------- *)

\* a page has at most this many words
MaxPageWords == 2

\* the end of a C string
NUL == "NUL"

\* the string a char buffer holds: its characters before the first NUL
c_str(buf) ==
  IF \E k \in DOMAIN buf : buf[k] = NUL
  THEN SubSeq(buf, 1, (CHOOSE k \in DOMAIN buf :
                         buf[k] = NUL /\ \A j \in 1 .. (k - 1) : buf[j] # NUL)
                      - 1)
  ELSE buf

\* the decimal digits, '0' first
Digits == <<"0", "1", "2", "3", "4", "5", "6", "7", "8", "9">>

\* <ctype.h> isdigit
isdigit(c) == \E k \in DOMAIN Digits : Digits[k] = c

\* the value of a decimal digit
digit_value(c) == (CHOOSE k \in DOMAIN Digits : Digits[k] = c) - 1

\* the digits of atoi: the number read so far, up to the first character
\* that is no digit
RECURSIVE atoi_digits(_, _)
atoi_digits(s, acc) ==
  IF s = <<>> \/ ~isdigit(Head(s)) THEN acc
  ELSE atoi_digits(Tail(s), acc * Len(Digits) + digit_value(Head(s)))

\* <stdlib.h> atoi: white space is skipped, then a sign and the digits are
\* read; 0 when there is no digit
RECURSIVE atoi(_)
atoi(s) ==
  IF s = <<>> THEN 0
  ELSE IF Head(s) \in {" ", "\t", "\n", "\r"} THEN atoi(Tail(s))
  ELSE IF Head(s) = "-" THEN 0 - atoi_digits(Tail(s), 0)
  ELSE IF Head(s) = "+" THEN atoi_digits(Tail(s), 0)
  ELSE atoi_digits(s, 0)

\* what printf writes for %d of a number that is not negative
RECURSIVE itoa(_)
itoa(n) ==
  IF n < Len(Digits) THEN <<Digits[n + 1]>>
  ELSE Append(itoa(n \div Len(Digits)), Digits[(n % Len(Digits)) + 1])

\* what printf writes for %d
printf_d(n) == IF n < 0 THEN <<"-">> \o itoa(0 - n) ELSE itoa(n)

\* faulty variant: the length of the word is not looked at
RECURSIVE NormalizeWord_any_length(_, _, _)
NormalizeWord_any_length(word, k, len) ==
  IF k >= len THEN word
  ELSE IF ~isalpha(word[k + 1]) THEN <<>>
  ELSE NormalizeWord_any_length([word EXCEPT ![k + 1] = tolower(@)],
                                k + 1, len)

\* indexer.c:88-96 the loop of NormalizeWord from word[k] on: the word is
\* emptied at the first character that is no letter, a letter is lowered
RECURSIVE NormalizeWord_loop(_, _, _)
NormalizeWord_loop(word, k, len) ==
  IF k >= len THEN word
  ELSE IF ~isalpha(word[k + 1]) THEN [word EXCEPT ![1] = NUL]
  ELSE NormalizeWord_loop([word EXCEPT ![k + 1] = tolower(@)], k + 1, len)

\* faulty variant: words of two letters pass
NormalizeWord_gate_two(word) ==
  NormalizeWord_any_length(word, 0, Len(word))

\* indexer.c:75-97 NormalizeWord, the string left in the buffer: a word of
\* less than 3 characters is emptied before the loop (word[0] of the empty
\* word is its terminator already)
NormalizeWord_indexer(word) ==
  LET len == Len(word)
      gated == IF len < 3 /\ len > 0 THEN [word EXCEPT ![1] = NUL] ELSE word
  IN  c_str(NormalizeWord_loop(gated, 0, len))

\* indexio.c:23-43 new_entry: the word with an empty queue of documents
new_entry(word) == [word |-> word, documents |-> <<>>]

\* hash.c:143-158 hsearch with entry_searchfn (indexer.c:30-34): the place
\* of the first entry of the word, 0 for NULL
hsearch_entry(htp, word) ==
  IF \E k \in DOMAIN htp : htp[k].word = word
  THEN CHOOSE k \in DOMAIN htp :
         htp[k].word = word /\ \A j \in 1 .. (k - 1) : htp[j].word # word
  ELSE 0

\* hash.c:117-125 hput of an entry
hput_entry(htp, ep) == Append(htp, ep)

\* faulty variant: every occurrence gets a posting of its own
add_word_new_posting(htp, word, doc_id) ==
  LET e == hsearch_entry(htp, word)
  IN  IF e # 0
      THEN [htp EXCEPT ![e].documents = qput(@, new_doc(doc_id, 1))]
      ELSE hput_entry(htp, [new_entry(word) EXCEPT
                              !.documents = qput(@, new_doc(doc_id, 1))])

\* indexer.c:166-186 an accepted word of page doc_id is counted: the count
\* of its posting is incremented, or a posting with count 1 is put, in a
\* new entry when the word has none
add_word(htp, word, doc_id) ==
  LET e == hsearch_entry(htp, word)
  IN  IF e # 0
      THEN LET dp == qsearch(htp[e].documents, doc_id)
           IN  IF dp # 0
               THEN [htp EXCEPT ![e].documents[dp].word_count = @ + 1]
               ELSE [htp EXCEPT ![e].documents = qput(@, new_doc(doc_id, 1))]
      ELSE hput_entry(htp, [new_entry(word) EXCEPT
                              !.documents = qput(@, new_doc(doc_id, 1))])

\* indexer.c:57-73 compare_func
compare_func(a, b) == IF a < b THEN 0 - 1 ELSE IF a > b THEN 1 ELSE 0

\* faulty variant: the ids stay in the order readdir gave them
qsort_nothing(ids) == ids

\* indexer.c:146 qsort with compare_func: the ids in ascending order
qsort(ids) ==
  CHOOSE sorted \in {[k \in DOMAIN ids |-> ids[f[k]]] :
                       f \in Permutations(DOMAIN ids)} :
    \A j, k \in DOMAIN sorted :
      j < k => compare_func(sorted[j], sorted[k]) <= 0

\* indexio.c:71-75 doc_queue_write_fn, what it writes for a document
doc_queue_write_fn(dp) ==
  printf_d(dp.id) \o <<" ">> \o printf_d(dp.word_count) \o <<" ">>

\* indexio.c:81 qapply(ep->documents, doc_queue_write_fn): what is written
\* for the documents in their order, the first half and then the second
RECURSIVE doc_queue_write(_)
doc_queue_write(documents) ==
  IF documents = <<>> THEN <<>>
  ELSE IF Len(documents) = 1 THEN doc_queue_write_fn(documents[1])
  ELSE LET half == Len(documents) \div 2
       IN  doc_queue_write(SubSeq(documents, 1, half))
             \o doc_queue_write(SubSeq(documents, half + 1, Len(documents)))

\* indexio.c:77-83 index_write_fn: the line of an entry
index_write_fn(ep) ==
  ep.word \o <<" ">> \o doc_queue_write(ep.documents) \o <<"\n">>

\* indexio.c:90-106 indexsave, the file opened: the lines of the entries
\* in the order happly visits them
RECURSIVE indexsave(_)
indexsave(entries) ==
  IF entries = <<>> THEN <<>>
  ELSE index_write_fn(Head(entries)) \o indexsave(Tail(entries))

\* the orders in which happly can visit the entries of a table (the order
\* of the buckets, hash.c:128-137)
happly_orders(htp) ==
  {[k \in DOMAIN htp |-> htp[f[k]]] : f \in Permutations(DOMAIN htp)}

(* ----------------------------- the pages ------------------------------ *)

Dartmouth == <<"D", "a", "r", "t", "m", "o", "u", "t", "h">>
a4x == <<"a", "4", "x">>

\* the words webpage_getNextWord returns
PageTokens == {dartmouth, Dartmouth, computer, or, a4x}

\* the words of a page, in the order webpage_getNextWord returns them
PageTexts == UNION {[1 .. n -> PageTokens] : n \in 0 .. MaxPageWords}

\* the files of the pages: the crawler names a file by its id
PageNames == {<<"2">>, <<"1", "0">>}

\* the entries of every directory
DotNames == {<<".">>, <<".", ".">>}

\* a file with a page in it, or one that pageload cannot read
PageFiles ==
  {[ok |-> TRUE, words |-> text] : text \in PageTexts}
    \cup {[ok |-> FALSE, words |-> <<>>]}

Dirs == [PageNames -> PageFiles]

(* ------------------------- the indexer's steps ------------------------ *)

\* indexer.c:101-130 the arguments are right and the directory is open
IndexerInit ==
  /\ CrawlerOver
  /\ QuerierNotStarted
  /\ UtilsNotStarted
  /\ page_dir \in Dirs
  /\ unread = DOMAIN page_dir \cup DotNames
  /\ file_ids = <<>> /\ file_i = 0 /\ page_words = <<>>
  /\ index_ht = <<>> /\ index_file = <<>> /\ reloaded = <<>>
  /\ indexer_pc = "readdir"

\* indexer.c:133-142 readdir returns an entry, in any order: the id of a
\* name that does not start with a dot goes to files
ReadDir ==
  /\ indexer_pc = "readdir"
  /\ \E name \in unread :
       /\ unread' = unread \ {name}
       /\ file_ids' = IF name[1] # "." THEN Append(file_ids, atoi(name))
                      ELSE file_ids
  /\ UNCHANGED <<crawler, querier, utils, page_dir, file_i, page_words, index_ht,
                 index_file, reloaded, indexer_pc>>

\* indexer.c:143-146 readdir returns NULL: the ids are sorted
SortFiles ==
  /\ indexer_pc = "readdir"
  /\ unread = {}
  /\ file_ids' = qsort(file_ids)
  /\ file_i' = 0
  /\ indexer_pc' = "load"
  /\ UNCHANGED <<crawler, querier, utils, page_dir, unread, page_words, index_ht,
                 index_file, reloaded>>

\* indexer.c:149-155 pageload of files[i] (pageio.c:64-72 opens the file
\* named by %d of the id); a page that does not load ends the indexer
LoadPage ==
  /\ indexer_pc = "load"
  /\ file_i < Len(file_ids)
  /\ LET name == printf_d(file_ids[file_i + 1])
     IN  IF name \in DOMAIN page_dir /\ page_dir[name].ok
         THEN /\ page_words' = page_dir[name].words
              /\ indexer_pc' = "words"
         ELSE /\ page_words' = <<>>
              /\ indexer_pc' = "failed"
  /\ UNCHANGED <<crawler, querier, utils, page_dir, unread, file_ids, file_i,
                 index_ht, index_file, reloaded>>

\* indexer.c:161-190 webpage_getNextWord returns a word: it is normalised
\* and, when not emptied, counted for files[i]
NextWord ==
  /\ indexer_pc = "words"
  /\ page_words # <<>>
  /\ LET word == NormalizeWord_indexer(Head(page_words))
     IN  index_ht' = IF word # <<>>
                     THEN add_word(index_ht, word, file_ids[file_i + 1])
                     ELSE index_ht
  /\ page_words' = Tail(page_words)
  /\ UNCHANGED <<crawler, querier, utils, page_dir, unread, file_ids, file_i,
                 index_file, reloaded, indexer_pc>>

\* indexer.c:161,191-193 the page has no more words: the next file
PageDone ==
  /\ indexer_pc = "words"
  /\ page_words = <<>>
  /\ file_i' = file_i + 1
  /\ indexer_pc' = "load"
  /\ UNCHANGED <<crawler, querier, utils, page_dir, unread, file_ids, page_words,
                 index_ht, index_file, reloaded>>

\* indexer.c:195-205 every page is indexed: indexsave writes the file
SaveIndex ==
  /\ indexer_pc = "load"
  /\ file_i = Len(file_ids)
  /\ \E entries \in happly_orders(index_ht) :
       index_file' = indexsave(entries)
  /\ indexer_pc' = "done"
  /\ UNCHANGED <<crawler, querier, utils, page_dir, unread, file_ids, file_i,
                 page_words, index_ht, reloaded>>

\* indexer.c:199-202 indexsave cannot open the file: the indexer fails
SaveFails ==
  /\ indexer_pc = "load"
  /\ file_i = Len(file_ids)
  /\ indexer_pc' = "failed"
  /\ UNCHANGED <<crawler, querier, utils, page_dir, unread, file_ids, file_i,
                 page_words, index_ht, index_file, reloaded>>

IndexNext ==
  \/ ReadDir \/ SortFiles \/ LoadPage \/ NextWord \/ PageDone
  \/ SaveIndex \/ SaveFails

IndexSpec == IndexerInit /\ [][IndexNext]_vars

(* --------------------- notions about the indexer ---------------------- *)

\* a token the indexer must accept: 3 characters or more, letters only
Accepted(token) ==
  Len(token) >= 3 /\ \A k \in DOMAIN token : token[k] \in Letters

\* how often word w occurs as an accepted token in the page file name
Occurrences(w, name) ==
  LET text == page_dir[name].words
  IN  Cardinality({k \in DOMAIN text :
                     Accepted(text[k]) /\ LowerCase(text[k]) = w})

\* the words a page can give the index, and the tokens as they are
PageWords == PageTokens \cup {LowerCase(token) : token \in PageTokens}

\* the postings of word w for doc d in a table: entry and place
PostingsOf(htp, w, d) ==
  UNION {{<<e, k>> : k \in {j \in DOMAIN htp[e].documents :
                              htp[e].documents[j].id = d}} :
           e \in {x \in DOMAIN htp : htp[x].word = w}}

\* the sum of the counts of a queue of documents
RECURSIVE SumCounts(_)
SumCounts(documents) ==
  IF documents = <<>> THEN 0
  ELSE Head(documents).word_count + SumCounts(Tail(documents))

\* the sum of the counts of a table
RECURSIVE TotalCount(_)
TotalCount(htp) ==
  IF htp = <<>> THEN 0
  ELSE SumCounts(Head(htp).documents) + TotalCount(Tail(htp))

\* the sum of the numbers f[x] for x in set
RECURSIVE SumOver(_, _)
SumOver(f, set) ==
  IF set = {} THEN 0
  ELSE LET x == CHOOSE x \in set : TRUE
       IN  f[x] + SumOver(f, set \ {x})

\* every page of the directory has been indexed
AllIndexed ==
  \/ indexer_pc = "done"
  \/ indexer_pc = "load" /\ file_i = Len(file_ids)

\* C27: when the indexer has processed the directory, the index has a
\* posting (d, c) for word w iff w occurs as an accepted token in page d,
\* it has one such posting only and c is the number of those occurrences;
\* the counts of an entry add up to the occurrences of its word in all
\* pages, and every doc id of a posting is the id of a page loaded
C27_PostingsCountAcceptedTokens ==
  AllIndexed =>
    /\ \A w \in PageWords, name \in PageNames :
         LET n == Occurrences(w, name)
             found == PostingsOf(index_ht, w, atoi(name))
         IN  /\ Cardinality(found) = (IF n > 0 THEN 1 ELSE 0)
             /\ \A p \in found :
                  index_ht[p[1]].documents[p[2]].word_count = n
    /\ \A e \in DOMAIN index_ht :
         /\ index_ht[e].word \in PageWords
         /\ SumCounts(index_ht[e].documents) =
              SumOver([name \in PageNames |->
                         Occurrences(index_ht[e].word, name)], PageNames)
         /\ \A k \in DOMAIN index_ht[e].documents :
              /\ index_ht[e].documents[k].word_count >= 1
              /\ \E name \in PageNames :
                   /\ page_dir[name].ok
                   /\ index_ht[e].documents[k].id = atoi(name)

\* page 2 has Dartmouth and dartmouth, page 10 has or and dartmouth: the
\* one entry is dartmouth with the postings (2, 2) and (10, 1)
C27_Witness ==
  /\ indexer_pc = "done"
  /\ page_dir[<<"2">>].words = <<Dartmouth, dartmouth>>
  /\ page_dir[<<"1", "0">>].words = <<or, dartmouth>>
  /\ index_ht = <<[word |-> dartmouth,
                   documents |-> <<new_doc(2, 2), new_doc(10, 1)>>]>>

\* a word of the index: letters in lower case, 3 or more
IndexWord(w) ==
  Len(w) >= 3 /\ \A k \in DOMAIN w : \E j \in DOMAIN Lower : w[k] = Lower[j]

\* the step for a token: an accepted token adds one to the count of its
\* word in lower case, another token leaves the index as it is
TokenStep ==
  indexer_pc = "words" /\ page_words # <<>> =>
    LET token == Head(page_words)
    IN  IF Accepted(token)
        THEN /\ TotalCount(index_ht') = TotalCount(index_ht) + 1
             /\ LET e == hsearch_entry(index_ht', LowerCase(token))
                IN  /\ e # 0
                    /\ SumCounts(index_ht'[e].documents) =
                         (IF hsearch_entry(index_ht, LowerCase(token)) = 0
                          THEN 0
                          ELSE SumCounts(index_ht[e].documents)) + 1
        ELSE index_ht' = index_ht

\* C28: the indexer accepts a token iff it has 3 characters or more and
\* all of them are letters, and stores it in lower case; at every point of
\* indexing every word of the index is made of 3 or more lower-case letters
C28_AcceptedIffThreeLetters ==
  /\ [](\A e \in DOMAIN index_ht : IndexWord(index_ht[e].word))
  /\ [][TokenStep]_vars

\* page 2 was Dartmouth then or: dartmouth is in the index, or is not
C28_Witness ==
  /\ indexer_pc = "words"
  /\ file_ids[file_i + 1] = 2
  /\ page_dir[<<"2">>].words = <<Dartmouth, or>>
  /\ page_words = <<>>
  /\ index_ht = <<[word |-> dartmouth, documents |-> <<new_doc(2, 1)>>]>>

\* C29: at every point of indexing no two entries of the index have the
\* same word, no entry has two postings of the same doc id, and the
\* postings of every entry are in strictly ascending order of doc id
C29_EntriesUniquePostingsAscending ==
  /\ \A e, f \in DOMAIN index_ht :
       index_ht[e].word = index_ht[f].word => e = f
  /\ \A e \in DOMAIN index_ht :
       \A j, k \in DOMAIN index_ht[e].documents :
         j < k => index_ht[e].documents[j].id < index_ht[e].documents[k].id

\* page 2 has dartmouth and computer, page 10 Dartmouth and dartmouth:
\* two entries, each with the posting of 2 before that of 10
C29_Witness ==
  /\ indexer_pc = "done"
  /\ page_dir[<<"2">>].words = <<dartmouth, computer>>
  /\ page_dir[<<"1", "0">>].words = <<Dartmouth, dartmouth>>
  /\ index_ht = <<[word |-> dartmouth,
                   documents |-> <<new_doc(2, 1), new_doc(10, 2)>>],
                  [word |-> computer, documents |-> <<new_doc(2, 1)>>]>>

(* ------------------------ the index file read ------------------------- *)

\* indexio.c:123  const int MAX_LINE_LEN = 1024;
MAX_LINE_LEN == 1024

\* an entry is written with at most this many postings
MaxPostings == 2

\* the long entry has this many postings
LongEntryDocs == 188

\* <stdio.h> fgets(line_buffer, MAX_LINE_LEN, file) with the file read up
\* to character from - 1: at most MAX_LINE_LEN - 1 characters, the last of
\* them the first newline if there is one among them
fgets(file, from) ==
  LET last == min(Len(file), from + MAX_LINE_LEN - 2)
      newlines == {k \in from .. last : file[k] = "\n"}
  IN  SubSeq(file, from,
             IF newlines = {} THEN last
             ELSE CHOOSE k \in newlines : \A j \in newlines : k <= j)

\* indexio.c:132-133 the line cut at its first \r or \n (strcspn)
cut_line(line_buffer) ==
  LET ends == {k \in DOMAIN line_buffer : line_buffer[k] \in {"\r", "\n"}}
  IN  IF ends = {} THEN line_buffer
      ELSE SubSeq(line_buffer, 1,
                  (CHOOSE k \in ends : \A j \in ends : k <= j) - 1)

\* indexio.c:135,139,142 the tokens the calls of strtok with delim " "
\* return for a line, in order: its longest runs without a space
strtok_all(line) ==
  LET places == [k \in DOMAIN line |-> k]
      first(k) == line[k] # " " /\ (k = 1 \/ line[k - 1] = " ")
      final(k) == line[k] # " " /\ (k = Len(line) \/ line[k + 1] = " ")
      starts == SelectSeq(places, first)
      stops == SelectSeq(places, final)
  IN  [j \in DOMAIN starts |-> SubSeq(line, starts[j], stops[j])]

\* what a build can make of atoi(NULL) when it does not stop the program
NullCounts == {0}

\* indexio.c:131-146 one turn of the loop of indexload, the outcomes: the
\* entry of the line's first token with a document for every two tokens
\* after it. strlen(NULL) for a line without a token and atoi(NULL) for a
\* doc id without a count are undefined: the program stops, or goes on
\* without the entry, or with a count of NullCounts
load_line(line_buffer) ==
  LET tokens == strtok_all(cut_line(line_buffer))
      n == Len(tokens) - 1
  IN  IF tokens = <<>>
      THEN {[crashed |-> TRUE, entries |-> <<>>],
            [crashed |-> FALSE, entries |-> <<>>]}
      ELSE IF n % 2 = 0
      THEN {[crashed |-> FALSE,
             entries |-> <<[word |-> tokens[1],
                            documents |->
                              [j \in 1 .. (n \div 2) |->
                                 new_doc(atoi(tokens[2 * j]),
                                         atoi(tokens[2 * j + 1]))]]>>]}
      ELSE {[crashed |-> TRUE, entries |-> <<>>]}
             \cup
           {[crashed |-> FALSE,
             entries |-> <<[word |-> tokens[1],
                            documents |->
                              [j \in 1 .. ((n + 1) \div 2) |->
                                 new_doc(atoi(tokens[2 * j]),
                                         IF 2 * j + 1 <= Len(tokens)
                                         THEN atoi(tokens[2 * j + 1])
                                         ELSE c)]]>>] : c \in NullCounts}

\* indexio.c:129-147 the loop of indexload with the file read up to
\* character from - 1 and the entries put so far: the outcomes
RECURSIVE indexload_from(_, _, _)
indexload_from(file, from, entries) ==
  IF from > Len(file) THEN {[crashed |-> FALSE, entries |-> entries]}
  ELSE LET line_buffer == fgets(file, from)
       IN  UNION {IF r.crashed
                  THEN {[crashed |-> TRUE, entries |-> entries]}
                  ELSE indexload_from(file, from + Len(line_buffer),
                                      entries \o r.entries) :
                    r \in load_line(line_buffer)}

\* indexio.c:112-151 indexload, the file opened: the outcomes
indexload(file) == indexload_from(file, 1, <<>>)

\* the posting lists written: one to MaxPostings postings, ids ascending
PostingLists ==
  {list \in UNION {[1 .. n -> {new_doc(d, c) : d \in {2, 10, 137},
                                               c \in {1, 40}}] :
                     n \in 1 .. MaxPostings} :
     \A j, k \in DOMAIN list : j < k => list[j].id < list[k].id}

\* the indexes of dartmouth and computer, entries in the order put
ShortIndexes ==
  {<<>>}
    \cup {<<[word |-> w, documents |-> l]>> :
            w \in {dartmouth, computer}, l \in PostingLists}
    \cup {<<[word |-> w[1], documents |-> l1],
            [word |-> w[2], documents |-> l2]>> :
            w \in {<<dartmouth, computer>>, <<computer, dartmouth>>},
            l1 \in PostingLists, l2 \in PostingLists}

\* dartmouth is once in each of the pages 1 .. LongEntryDocs
LongIndex ==
  <<[word |-> dartmouth,
     documents |-> [k \in 1 .. LongEntryDocs |-> new_doc(k, 1)]]>>

\* indexer.c:195 the index is built and is to be saved
RoundTripInit ==
  /\ CrawlerOver
  /\ QuerierNotStarted
  /\ UtilsNotStarted
  /\ page_dir = <<>> /\ unread = {} /\ file_ids = <<>> /\ file_i = 0
  /\ page_words = <<>>
  /\ index_ht \in ShortIndexes \cup {LongIndex}
  /\ index_file = <<>> /\ reloaded = <<>>
  /\ indexer_pc = "load"

\* query.c:153 and indexio_test.c:39 indexload of the file indexsave wrote
LoadIndex ==
  /\ indexer_pc = "done"
  /\ \E r \in indexload(index_file) :
       /\ reloaded' = r.entries
       /\ indexer_pc' = IF r.crashed THEN "crashed" ELSE "loaded"
  /\ UNCHANGED <<crawler, querier, utils, page_dir, unread, file_ids, file_i,
                 page_words, index_ht, index_file>>

RoundTripNext == SaveIndex \/ SaveFails \/ LoadIndex

RoundTripSpec == RoundTripInit /\ [][RoundTripNext]_vars

\* the entries of a table, as a set
EntrySet(htp) == {htp[k] : k \in DOMAIN htp}

\* the characters of a line of the index file, the newline included
LineLength(ep) == Len(index_write_fn(ep))

\* C30: indexload of the file indexsave wrote ends and gives the index
\* saved: the same words, each once, with the same postings in the same
\* order, whatever the number of postings of an entry
C30_RoundTripIsIdentity ==
  indexer_pc \in {"loaded", "crashed"} =>
    /\ indexer_pc = "loaded"
    /\ Len(reloaded) = Len(index_ht)
    /\ EntrySet(reloaded) = EntrySet(index_ht)

\* the round trip of an index whose lines fit the line buffer
C30_ShortLinesRoundTrip ==
  (/\ indexer_pc \in {"loaded", "crashed"}
   /\ \A e \in DOMAIN index_ht : LineLength(index_ht[e]) < MAX_LINE_LEN)
    => /\ indexer_pc = "loaded"
       /\ Len(reloaded) = Len(index_ht)
       /\ EntrySet(reloaded) = EntrySet(index_ht)

\* the round trip of two entries of two postings has been made
C30_ShortLinesWitness ==
  /\ indexer_pc = "loaded"
  /\ index_ht = <<[word |-> computer,
                   documents |-> <<new_doc(10, 40), new_doc(137, 1)>>],
                  [word |-> dartmouth,
                   documents |-> <<new_doc(2, 1), new_doc(10, 1)>>]>>
  /\ reloaded = <<index_ht[2], index_ht[1]>>

(* ------------------- the crawler's counters and locks ----------------- *)

\* worker t has put its page on the frontier and has not released the
\* mutex since (crawler.c:143-147)
Enqueuing(t) == pc[t] \in {"added", "lhput", "save", "unlock"}

\* C34: in every state of the crawl pages_retrieved <= pages_added, and
\* while a worker has put a page on the frontier and not yet incremented
\* pages_added for it, no worker has incremented pages_retrieved for it
C34_RetrievedAtMostAdded ==
  /\ pages_retrieved <= pages_added
  /\ \A t, u \in Threads :
       pc[t] = "added" /\ curr[u] = page(t) => pc[u] # "unlock_ret"

\* a worker holds the page another worker has put on the frontier, and is
\* about to count it, while pages_added has not been incremented for it
C34_Witness ==
  \E t, u \in Threads :
    /\ t # u
    /\ pc[t] = "added"
    /\ curr[u] = page(t)
    /\ pc[u] = "lock_ret"

\* C35: a page put on the frontier may be dequeued by another worker
\* before it is saved, but the step that deletes it (crawler.c:165-166)
\* is never taken while the worker that put it is between its lqput and
\* the release of the mutex after pagesave
C35_NotDeletedBeforeSaved ==
  [][\A u \in Threads :
       pc[u] = "unlock_ret" /\ pc'[u] = "get" =>
         \A t \in Threads : Enqueuing(t) => page(t) # curr[u]]_vars

\* a worker has dequeued the page that another worker is about to save
C35_Witness ==
  \E t, u \in Threads :
    /\ t # u
    /\ pc[t] = "save"
    /\ curr[u] = page(t)
    /\ pc[u] = "lock_ret"

\* C36: while the workers run and none of them holds the crawl mutex, the
\* counters agree: next DocId - 1 = pages_added = the number of URLs in the
\* visited table = the number of pages saved
C36_CountersAgree ==
  main_pc = "join" /\ crawl_mutex = FREE =>
    /\ id - 1 = pages_added
    /\ pages_added = Cardinality(VisitedURLs)
    /\ pages_added = Cardinality(DOMAIN files)

(* ---------------------- the evaluator's stack ------------------------- *)
\* the number of or tokens among the first k tokens of the stream
OrTokens(k) == Cardinality({j \in 1 .. k : tokenized_query[j] = or})

\* the number of terms among the first k tokens that open the stream or
\* follow an or: each of them starts a new operand of the final folding
OrOperands(k) ==
  Cardinality({j \in 1 .. k :
                 /\ ~is_operator(tokenized_query[j])
                 /\ j = 1 \/ tokenized_query[j - 1] = or})

\* C38: while a valid token stream is evaluated no slot below the stack is
\* ever read; a term met with and pending finds at least one list on the
\* stack (two once it is pushed); during the scan the stack holds one list
\* for each operand of the folding begun, so (number of or tokens + 1)
\* lists when the scan is over; the folding never empties the stack and leaves
\* exactly one list
C38_StackNeverUnderflows ==
  /\ ~underflow
  /\ query_pc = "scan" =>
       /\ top + 1 = OrOperands(scan)
       /\ scan = num_tokens => top + 1 = OrTokens(num_tokens) + 1
       /\ scan < num_tokens /\ ~is_operator(tokenized_query[scan + 1])
            /\ curr_operator = and => top >= 0
  /\ query_pc = "union" => top >= 0 /\ top <= OrTokens(num_tokens)
  /\ query_pc = "rank" => top = 0
C38_Witness ==
  /\ query_pc = "rank" /\ top = 0
  /\ \E j, k \in 1 .. num_tokens :
       tokenized_query[j] = and /\ tokenized_query[k] = or

(* ------------------------------ pageio -------------------------------- *)
\* the deepest page that is saved
MaxPageDepth == 1

\* <ctype.h> isspace
isspace(c) == c \in {" ", "\t", "\n", "\f", "\r"}

\* the first place from k on where file holds no white space, or the end
\* of the file: where fscanf is after a white-space directive, and where a
\* conversion starts
skip_space(file, k) ==
  LET stops == {j \in k .. Len(file) : ~isspace(file[j])}
  IN  IF stops = {} THEN Len(file) + 1
      ELSE CHOOSE j \in stops : \A m \in stops : j <= m

\* the end of the longest run from k on whose characters all pass keep
run_end(file, k, keep(_)) ==
  LET stops == {j \in k .. Len(file) : ~keep(file[j])}
  IN  IF stops = {} THEN Len(file)
      ELSE (CHOOSE j \in stops : \A m \in stops : j <= m) - 1

\* fscanf %s with the file read up to k - 1: white space is skipped and
\* the characters up to the next white space are stored; no conversion at
\* the end of the file
fscanf_s(file, k) ==
  LET from == skip_space(file, k)
      notspace(c) == ~isspace(c)
      to == run_end(file, from, notspace)
  IN  [converted |-> from <= Len(file), val |-> SubSeq(file, from, to),
       at |-> to + 1]

\* fscanf %d with the file read up to k - 1: white space is skipped, then a
\* sign and the digits are read; no conversion without a digit
fscanf_d(file, k) ==
  LET from == skip_space(file, k)
      signed == from <= Len(file) /\ file[from] \in {"-", "+"}
      first == IF signed THEN from + 1 ELSE from
      to == run_end(file, first, isdigit)
      digits == atoi_digits(SubSeq(file, first, to), 0)
  IN  [converted |-> first <= to,
       val |-> IF signed /\ file[from] = "-" THEN 0 - digits ELSE digits,
       at |-> to + 1]

\* webpage.c webpage_new(url, depth, html): the page keeps the three and
\* the length of html
webpage_new_html(u, d, h) ==
  [url |-> u, depth |-> d, html_len |-> Len(h), html |-> h]

\* pageload's NULL
NULL_PAGE == <<>>

\* pageio.c:52 fprintf(file, "%s\n%d\n%d\n%s", url, depth, len, html)
fprintf_page(pagep) ==
  pagep.url \o <<"\n">> \o printf_d(pagep.depth) \o <<"\n">>
    \o printf_d(pagep.html_len) \o <<"\n">> \o pagep.html

\* pageio.c:27-56 pagesave: the file <id> opened "w" and written, or the
\* directory left alone when fopen fails
page_save(pagep, docid, dirnm, opened) ==
  IF opened THEN (docid :> fprintf_page(pagep)) @@ dirnm ELSE dirnm

\* pageio.c:69-124 pageload: the url, the depth and the length are scanned,
\* each with the white space after it ("%s\n", "%d\n"), then at most
\* html_length characters are read up to the end of the file
page_load(docid, dirnm) ==
  IF docid \notin DOMAIN dirnm THEN NULL_PAGE
  ELSE
    LET file == dirnm[docid]
        u == fscanf_s(file, 1)
        d == fscanf_d(file, skip_space(file, u.at))
        len == fscanf_d(file, skip_space(file, d.at))
        from == skip_space(file, len.at)
        to == min(Len(file), from + len.val - 1)
    IN  IF ~u.converted \/ ~d.converted \/ ~len.converted THEN NULL_PAGE
        ELSE webpage_new_html(u.val, d.val, SubSeq(file, from, to))

\* the pages saved: urls without white space, html with and without white
\* space at its ends
PageURLs == {<<"a">>, <<"a", "/", "b">>}
PageHTMLs ==
  {<<>>, <<"x">>, <<"x", "y">>, <<"x", " ", "y">>, <<"x", "\n">>,
   <<" ", "x">>, <<"\n", "x">>, <<" ", " ">>}
Pages ==
  {webpage_new_html(u, d, h) :
     u \in PageURLs, d \in 0 .. MaxPageDepth, h \in PageHTMLs}

\* a page as the crawler holds it, and an empty directory
PageioInit ==
  /\ CrawlerOver /\ QuerierNotStarted /\ IndexerNotStarted
  /\ QueueNotStarted /\ LockedNotStarted
  /\ webpage \in Pages
  /\ page_files = <<>> /\ page_copy = <<>>
  /\ pageio_pc = "save"

\* crawler.c:81,146 pagesave(page, id, dirname) of the page as file 1
SavePage ==
  /\ pageio_pc = "save"
  /\ \E opened \in BOOLEAN :
       /\ page_files' = page_save(webpage, 1, page_files, opened)
       /\ pageio_pc' = IF opened THEN "load" ELSE "failed"
  /\ UNCHANGED <<crawler, querier, indexer, queues, locked, webpage, page_copy>>

\* pageio_test.c:19-25 page = pageload(1, dirname)
LoadSavedPage ==
  /\ pageio_pc = "load"
  /\ page_copy' = (1 :> page_load(1, page_files))
  /\ pageio_pc' = IF page_load(1, page_files) = NULL_PAGE THEN "failed"
                  ELSE "resave"
  /\ UNCHANGED <<crawler, querier, indexer, queues, locked, webpage, page_files>>

\* pageio_test.c:26-30 pagesave(page, ++id, dirname)
SaveLoadedPage ==
  /\ pageio_pc = "resave"
  /\ \E opened \in BOOLEAN :
       /\ page_files' = page_save(page_copy[1], 2, page_files, opened)
       /\ pageio_pc' = IF opened THEN "reload" ELSE "failed"
  /\ UNCHANGED <<crawler, querier, indexer, queues, locked, webpage, page_copy>>

\* pageio_test.c:32-45 page_copy = pageload(2, dirname) and the four
\* comparisons
LoadPageCopy ==
  /\ pageio_pc = "reload"
  /\ page_copy' = (2 :> page_load(2, page_files)) @@ page_copy
  /\ pageio_pc' = IF page_load(2, page_files) = page_copy[1] THEN "same"
                  ELSE "differ"
  /\ UNCHANGED <<crawler, querier, indexer, queues, locked, webpage, page_files>>

PageioNext == SavePage \/ LoadSavedPage \/ SaveLoadedPage \/ LoadPageCopy

PageioSpec == PageioInit /\ [][PageioNext]_vars

\* C31: a page that was saved and loaded again is the page that was saved:
\* its url, depth, html_length and html are those of the page saved,
\* whatever the html begins with
C31_PageRoundTrip ==
  1 \in DOMAIN page_copy => page_copy[1] = webpage

(* ------------------------------ queue.c ------------------------------- *)
\* the qelement_t the heap has room for
MaxNodes == 3
Nodes == 1 .. MaxNodes

\* a null qelement_t* and a null element
NULL_NODE == 0
NULL_ELEMENT == 0

\* the elements put
Elements == {1, 2}

\* queue.c:30-38 qopen: no front, no back; no node is allocated
queue_qopen ==
  [front |-> NULL_NODE, back |-> NULL_NODE,
   element |-> [n \in Nodes |-> NULL_ELEMENT],
   next |-> [n \in Nodes |-> NULL_NODE],
   allocated |-> {}]

\* queue.c:71-82 qput once malloc has returned qep and q->back was read as
\* back: the node is filled and linked behind back, or made the front when
\* back is null
queue_link(q, qep, elementp, back) ==
  LET filled == [q EXCEPT !.element[qep] = elementp,
                          !.next[qep] = NULL_NODE,
                          !.allocated = @ \cup {qep}]
  IN  IF back = NULL_NODE
      THEN [filled EXCEPT !.front = qep, !.back = qep]
      ELSE [filled EXCEPT !.next[back] = qep, !.back = qep]

\* queue.c:63-84 qput, malloc returning qep
queue_qput(q, qep, elementp) == queue_link(q, qep, elementp, q.back)

\* queue.c:99-106 qget once q->front was read as qep: its element is
\* returned, front moves on (and back is nulled with it), the node is freed
queue_unlink(q, qep) ==
  IF qep = NULL_NODE THEN [q |-> q, data |-> NULL_ELEMENT]
  ELSE [q |-> [q EXCEPT !.front = q.next[qep],
                        !.back = IF q.next[qep] = NULL_NODE THEN NULL_NODE
                                 ELSE @,
                        !.allocated = @ \ {qep}],
        data |-> q.element[qep]]

\* queue.c:87-107 qget
queue_qget(q) == queue_unlink(q, q.front)

\* the nodes met from node n on by following next, at most fuel of them
RECURSIVE queue_walk(_, _, _)
queue_walk(q, n, fuel) ==
  IF n = NULL_NODE \/ fuel = 0 THEN <<>>
  ELSE <<n>> \o queue_walk(q, q.next[n], fuel - 1)

\* queue.c:110-122 qapply: the elements fn is applied to, in order
queue_qapply(q) ==
  LET nodes == queue_walk(q, q.front, MaxNodes)
  IN  [k \in DOMAIN nodes |-> q.element[nodes[k]]]

\* lqueue_test.c:25-28 compare_int, part_006:23-28 searchfn: the element
\* holds the key (in its last digit; the others tell equal keys apart)
searchfn(elementp, keyp) == elementp % 10 = keyp

\* queue.c:133-150 qsearch
queue_qsearch(q, skeyp) ==
  LET found == SelectSeq(queue_qapply(q), LAMBDA e : searchfn(e, skeyp))
  IN  IF found = <<>> THEN NULL_ELEMENT ELSE Head(found)

\* queue.c:156-186 qremove: the first node whose element matches is taken
\* out of the chain (front or prev->next is moved past it) and freed; back
\* is left as it is
queue_qremove(q, skeyp) ==
  LET nodes == queue_walk(q, q.front, MaxNodes)
      hits == {k \in DOMAIN nodes : searchfn(q.element[nodes[k]], skeyp)}
  IN  IF hits = {} THEN [q |-> q, data |-> NULL_ELEMENT]
      ELSE
        LET k == CHOOSE j \in hits : \A m \in hits : j <= m
            curr_node == nodes[k]
            cut == IF k = 1
                   THEN [q EXCEPT !.front = q.next[curr_node]]
                   ELSE [q EXCEPT !.next[nodes[k - 1]] = q.next[curr_node]]
        IN  [q |-> [cut EXCEPT !.allocated = @ \ {curr_node}],
             data |-> q.element[curr_node]]

\* the reference: the sequence without its first element equal to key
RECURSIVE without_first(_, _)
without_first(seq, key) ==
  IF seq = <<>> THEN <<>>
  ELSE IF Head(seq) = key THEN Tail(seq)
  ELSE <<Head(seq)>> \o without_first(Tail(seq), key)

\* the reference's answer to a search
first_equal(seq, key) ==
  IF \E k \in DOMAIN seq : seq[k] = key THEN key ELSE NULL_ELEMENT

\* an open, empty queue
QueueInit ==
  /\ CrawlerOver /\ QuerierNotStarted /\ IndexerNotStarted
  /\ PageioNotStarted /\ LockedNotStarted
  /\ queue = queue_qopen
  /\ fifo = <<>>
  /\ q_ret = [got |-> 0, want |-> 0]

\* qput(qp, elementp): malloc returns any node that is not allocated, a
\* node freed before or a new one
QPut ==
  /\ \E elementp \in Elements, qep \in Nodes \ queue.allocated :
       /\ queue' = queue_qput(queue, qep, elementp)
       /\ fifo' = Append(fifo, elementp)
  /\ q_ret' = [got |-> 0, want |-> 0]
  /\ UNCHANGED <<crawler, querier, indexer, pageio, locked>>

\* qget(qp)
QGet ==
  /\ queue' = queue_qget(queue).q
  /\ fifo' = IF fifo = <<>> THEN fifo ELSE Tail(fifo)
  /\ q_ret' = [got |-> queue_qget(queue).data,
               want |-> IF fifo = <<>> THEN NULL_ELEMENT ELSE Head(fifo)]
  /\ UNCHANGED <<crawler, querier, indexer, pageio, locked>>

\* qremove(qp, searchfn, skeyp)
QRemove ==
  /\ \E skeyp \in Elements :
       /\ queue' = queue_qremove(queue, skeyp).q
       /\ fifo' = without_first(fifo, skeyp)
       /\ q_ret' = [got |-> queue_qremove(queue, skeyp).data,
                    want |-> first_equal(fifo, skeyp)]
  /\ UNCHANGED <<crawler, querier, indexer, pageio, locked>>

\* qsearch(qp, searchfn, skeyp)
QSearch ==
  /\ \E skeyp \in Elements :
       q_ret' = [got |-> queue_qsearch(queue, skeyp),
                 want |-> first_equal(fifo, skeyp)]
  /\ UNCHANGED <<crawler, querier, indexer, pageio, locked, queue, fifo>>

\* qapply(qp, fn)
QApply ==
  /\ q_ret' = [got |-> queue_qapply(queue), want |-> fifo]
  /\ UNCHANGED <<crawler, querier, indexer, pageio, locked, queue, fifo>>

QueueNext == QPut \/ QGet \/ QRemove \/ QSearch \/ QApply

QueueSpec == QueueInit /\ [][QueueNext]_vars

\* C39: after any sequence of qput, qget and qremove the queue is the
\* reference FIFO sequence with the removed elements deleted: the elements
\* reachable from its front are those of the reference, in order, and
\* every call returns what the reference returns
C39_QueueIsFifo ==
  /\ queue_qapply(queue) = fifo
  /\ q_ret.got = q_ret.want

(* ------------------------------ lqueue.c ------------------------------ *)
\* the threads that share the locked queue, and the calls each of them
\* makes on one queue
MaxClients == 2
MaxCalls == 2
Clients == 1 .. MaxClients

\* lqueue.c:18 PTHREAD_MUTEX_INITIALIZER
MUTEX_INITIALIZER == [holder |-> FREE, destroyed |-> FALSE]

\* pthread_mutex_lock(&mutex) by thread t, the mutexes it can return with
\* (none: t waits). On a destroyed mutex the call is undefined: it locks as
\* before, or it returns at once with an error and the mutex is not held
pthread_mutex_lock(m, t) ==
  (IF m.holder = FREE THEN {[m EXCEPT !.holder = t]} ELSE {})
    \cup (IF m.destroyed THEN {m} ELSE {})

\* pthread_mutex_unlock(&mutex) by thread t
pthread_mutex_unlock(m, t) ==
  IF m.holder = t THEN [m EXCEPT !.holder = FREE] ELSE m

\* pthread_mutex_destroy(&mutex)
pthread_mutex_destroy(m) == [m EXCEPT !.destroyed = TRUE]

\* the element thread t puts in its call number k + 1
Elem(t, k) == 10 * t + k + 1

\* a thread between two calls
Idle == [pc |-> "idle", op |-> "none", calls |-> 0, node |-> NULL_NODE,
         elem |-> NULL_ELEMENT]

\* lqueue_test.c:79-85 (the first test_threads) lqopen and pthread_create:
\* a new queue, the mutex as it is initialized
LQueueInit ==
  /\ CrawlerOver /\ QuerierNotStarted /\ IndexerNotStarted
  /\ PageioNotStarted
  /\ queue = queue_qopen /\ fifo = <<>>
  /\ q_ret = [got |-> 0, want |-> 0]
  /\ mutex = MUTEX_INITIALIZER
  /\ main_thread = "first"
  /\ thr = [t \in Clients |-> Idle]
  /\ call_hist = [put |-> {}, got |-> <<>>]
  /\ htable = <<>> /\ mutex_h = <<>>

\* a queue is open and its threads run
LQueueOpen == main_thread \in {"first", "second"}

\* a thread calls lqput(lqueue, data) or lqget(lqueue)
LqCall(t) ==
  /\ LQueueOpen /\ thr[t].pc = "idle" /\ thr[t].calls < MaxCalls
  /\ \E op \in {"put", "get"} :
       thr' = [thr EXCEPT ![t].pc = "lock", ![t].op = op,
                          ![t].elem = IF op = "put" THEN Elem(t, thr[t].calls)
                                      ELSE NULL_ELEMENT]
  /\ UNCHANGED <<crawler, querier, indexer, pageio, htable, mutex_h, queues, mutex, main_thread,
                 call_hist>>

\* lqueue.c:44,53 pthread_mutex_lock(&mutex)
LqLock(t) ==
  /\ LQueueOpen /\ thr[t].pc = "lock"
  /\ mutex' \in pthread_mutex_lock(mutex, t)
  /\ thr' = [thr EXCEPT ![t].pc = "read"]
  /\ UNCHANGED <<crawler, querier, indexer, pageio, htable, mutex_h, queues, main_thread, call_hist>>

\* queue.c:66-73 qput up to the test of q->back: malloc returns a node (or
\* NULL: qput returns -1) and q->back is read; queue.c:94-98 qget up to the
\* test of q->front: NULL is returned when it is null
LqRead(t) ==
  /\ LQueueOpen /\ thr[t].pc = "read"
  /\ IF thr[t].op = "put"
     THEN /\ IF Nodes \ queue.allocated = {}
             THEN /\ thr' = [thr EXCEPT ![t].pc = "unlock"]
                  /\ UNCHANGED queue
             ELSE \E qep \in Nodes \ queue.allocated :
                    /\ queue' = [queue EXCEPT !.allocated = @ \cup {qep}]
                    /\ thr' = [thr EXCEPT ![t].pc = "write",
                                          ![t].node = [qep |-> qep,
                                                       back |-> queue.back]]
          /\ UNCHANGED <<fifo, q_ret, call_hist>>
     ELSE IF queue.front = NULL_NODE
     THEN /\ thr' = [thr EXCEPT ![t].pc = "unlock"]
          /\ q_ret' = [got |-> NULL_ELEMENT,
                       want |-> IF fifo = <<>> THEN NULL_ELEMENT
                                ELSE Head(fifo)]
          /\ fifo' = IF fifo = <<>> THEN fifo ELSE Tail(fifo)
          /\ UNCHANGED <<queue, call_hist>>
     ELSE /\ thr' = [thr EXCEPT ![t].pc = "write", ![t].node = queue.front]
          /\ UNCHANGED <<queue, fifo, q_ret, call_hist>>
  /\ UNCHANGED <<crawler, querier, indexer, pageio, htable, mutex_h, mutex, main_thread>>

\* queue.c:71-82 the rest of qput: the node is linked; queue.c:99-106 the
\* rest of qget: the front node is unlinked and its element returned
LqWrite(t) ==
  /\ LQueueOpen /\ thr[t].pc = "write"
  /\ IF thr[t].op = "put"
     THEN /\ queue' = queue_link(queue, thr[t].node.qep, thr[t].elem,
                                 thr[t].node.back)
          /\ fifo' = Append(fifo, thr[t].elem)
          /\ call_hist' = [call_hist EXCEPT !.put = @ \cup {thr[t].elem}]
          /\ UNCHANGED q_ret
     ELSE LET r == queue_unlink(queue, thr[t].node)
          IN  /\ queue' = r.q
              /\ q_ret' = [got |-> r.data,
                           want |-> IF fifo = <<>> THEN NULL_ELEMENT
                                    ELSE Head(fifo)]
              /\ fifo' = IF fifo = <<>> THEN fifo ELSE Tail(fifo)
              /\ call_hist' = [call_hist EXCEPT !.got = Append(@, r.data)]
  /\ thr' = [thr EXCEPT ![t].pc = "unlock"]
  /\ UNCHANGED <<crawler, querier, indexer, pageio, htable, mutex_h, mutex, main_thread>>

\* lqueue.c:46-47,55-56 pthread_mutex_unlock(&mutex) and the return
LqUnlock(t) ==
  /\ LQueueOpen /\ thr[t].pc = "unlock"
  /\ mutex' = pthread_mutex_unlock(mutex, t)
  /\ thr' = [thr EXCEPT ![t] = [Idle EXCEPT !.calls = thr[t].calls + 1]]
  /\ UNCHANGED <<crawler, querier, indexer, pageio, htable, mutex_h, queues, main_thread, call_hist>>

\* lqueue_test.c:88-101 the threads are joined and lqclose(lqueue) is
\* called; lqueue.c:30-36 lqclose: the queue is closed under the mutex and
\* the mutex is destroyed
LqClose ==
  /\ LQueueOpen /\ \A t \in Clients : thr[t].pc = "idle"
  /\ mutex' = pthread_mutex_destroy(mutex)
  /\ queue' = <<>> /\ fifo' = <<>> /\ q_ret' = [got |-> 0, want |-> 0]
  /\ main_thread' = IF main_thread = "first" THEN "closed" ELSE "done"
  /\ UNCHANGED <<crawler, querier, indexer, pageio, htable, mutex_h, thr, call_hist>>

\* lqueue_test.c:113,79-85 the second test_threads: lqopen and
\* pthread_create; lqueue.c:21-27 lqopen: a new queue, the mutex as it is
LqOpen ==
  /\ main_thread = "closed"
  /\ queue' = queue_qopen /\ fifo' = <<>>
  /\ thr' = [t \in Clients |-> Idle]
  /\ call_hist' = [put |-> {}, got |-> <<>>]
  /\ main_thread' = "second"
  /\ UNCHANGED <<crawler, querier, indexer, pageio, htable, mutex_h, q_ret, mutex>>

LQueueNext ==
  \/ \E t \in Clients : LqCall(t) \/ LqLock(t) \/ LqRead(t) \/ LqWrite(t)
                          \/ LqUnlock(t)
  \/ LqClose \/ LqOpen

LQueueSpec == LQueueInit /\ [][LQueueNext]_vars

\* the threads that are inside qput or qget
InQueue == {t \in Clients : thr[t].pc \in {"read", "write", "unlock"}}

\* the elements returned so far and those still in the queue, in order
Dequeued == call_hist.got \o queue_qapply(queue)

\* every call has taken effect atomically: the queue is the FIFO sequence
\* of the calls in the order they took effect, every lqget returned what
\* that sequence gives (NULL only when it is empty), every element put was
\* returned once or is still in the queue and none is there twice, and the
\* elements of one thread leave in the order it put them
CallsAtomic ==
  /\ queue_qapply(queue) = fifo
  /\ q_ret.got = q_ret.want
  /\ {Dequeued[k] : k \in DOMAIN Dequeued} = call_hist.put
  /\ \A j, k \in DOMAIN Dequeued :
       j < k => /\ Dequeued[j] # Dequeued[k]
                /\ Dequeued[j] \div 10 = Dequeued[k] \div 10
                     => Dequeued[j] < Dequeued[k]

\* C32: under any interleaving of lqput and lqget calls by the threads that
\* share a locked queue every call takes effect atomically
C32_CallsAreAtomic == LQueueOpen => CallsAtomic

\* C40: while a locked queue is open its lock is valid, also when another
\* queue was closed before it was opened: the mutex is not destroyed and at
\* most one thread is inside a queue operation
C40_LockOutlivesClose ==
  LQueueOpen => ~mutex.destroyed /\ Cardinality(InQueue) <= 1

(* ------------------------------- lhash.c ------------------------------ *)
\* the size of the table, and the keys used
MaxBuckets == 2
Keys == {1, 2}

\* hash.c:30-73 SuperFastHash: a number from 0 to tablesize - 1 that
\* depends on the key alone
SuperFastHash(key, tablesize) == key % tablesize

\* hash.c:76-96 hopen: an empty queue for every hash value
hash_hopen(hsize) == [h \in 0 .. (hsize - 1) |-> queue_qopen]

\* hash.c:117-125 hput, malloc returning qep in qput
hash_hput(htp, qep, ep, key) ==
  [htp EXCEPT ![SuperFastHash(key, Cardinality(DOMAIN htp))] =
                 queue_qput(@, qep, ep)]

\* hash.c:143-154 hsearch
hash_hsearch(htp, key) ==
  queue_qsearch(htp[SuperFastHash(key, Cardinality(DOMAIN htp))], key)

\* hash.c:160-171 hremove: the table left and the entry returned
hash_hremove(htp, key) ==
  LET hash == SuperFastHash(key, Cardinality(DOMAIN htp))
  IN  [htp |-> [htp EXCEPT ![hash] = queue_qremove(@, key).q],
       data |-> queue_qremove(htp[hash], key).data]

\* the entry thread t puts under key in its call number k + 1
Entry(t, k, key) == 100 * t + 10 * (k + 1) + key

\* the entries put and not returned by a remove, and those under a key
Present == call_hist.put \ {call_hist.got[k] : k \in DOMAIN call_hist.got}
Under(key) == {e \in Present : searchfn(e, key)}

\* what a search or a remove may return: an entry under the key that is
\* in the table, NULL when there is none
Answers(key) == IF Under(key) = {} THEN {NULL_ELEMENT} ELSE Under(key)

\* part_006:92-98 lhopen(hsize) and pthread_create: an empty table, the
\* mutex as it is initialized
LHashInit ==
  /\ CrawlerOver /\ QuerierNotStarted /\ IndexerNotStarted
  /\ PageioNotStarted /\ QueueNotStarted
  /\ mutex = <<>> /\ mutex_h = MUTEX_INITIALIZER
  /\ main_thread = "table"
  /\ thr = [t \in Clients |-> Idle]
  /\ call_hist = [put |-> {}, got |-> <<>>, ret |-> NULL_ELEMENT,
                  answers |-> {NULL_ELEMENT}]
  /\ htable = hash_hopen(MaxBuckets)

\* part_006:38-71 a thread calls lhput, lhremove or lhsearch with a key
LhCall(t) ==
  /\ main_thread = "table" /\ thr[t].pc = "idle" /\ thr[t].calls < MaxCalls
  /\ \E op \in {"put", "search", "remove"}, key \in Keys :
       thr' = [thr EXCEPT ![t].pc = "lock", ![t].op = op, ![t].node = key,
                          ![t].elem = IF op = "put"
                                      THEN Entry(t, thr[t].calls, key)
                                      ELSE NULL_ELEMENT]
  /\ UNCHANGED <<crawler, querier, indexer, pageio, queues, mutex, mutex_h,
                 main_thread, call_hist, htable>>

\* lhash.c:42,63,75 pthread_mutex_lock(&mutex_h)
LhLock(t) ==
  /\ main_thread = "table" /\ thr[t].pc = "lock"
  /\ mutex_h' \in pthread_mutex_lock(mutex_h, t)
  /\ thr' = [thr EXCEPT ![t].pc = "locked"]
  /\ UNCHANGED <<crawler, querier, indexer, pageio, queues, mutex,
                 main_thread, call_hist, htable>>

\* lhash.c:43,64,76 hput, hsearch or hremove under the mutex; qput returns
\* -1 and puts nothing when malloc returns NULL
LhCalled(t) ==
  /\ main_thread = "table" /\ thr[t].pc = "locked"
  /\ LET key == thr[t].node
         bucket == htable[SuperFastHash(key, Cardinality(DOMAIN htable))]
     IN  IF thr[t].op = "put"
         THEN IF Nodes \ bucket.allocated = {}
              THEN UNCHANGED <<htable, call_hist>>
              ELSE \E qep \in Nodes \ bucket.allocated :
                     /\ htable' = hash_hput(htable, qep, thr[t].elem, key)
                     /\ call_hist' = [call_hist EXCEPT
                                        !.put = @ \cup {thr[t].elem}]
         ELSE IF thr[t].op = "search"
         THEN /\ call_hist' = [call_hist EXCEPT
                                 !.ret = hash_hsearch(htable, key),
                                 !.answers = Answers(key)]
              /\ UNCHANGED htable
         ELSE LET r == hash_hremove(htable, key)
              IN  /\ htable' = r.htp
                  /\ call_hist' = [call_hist EXCEPT
                                     !.ret = r.data,
                                     !.answers = Answers(key),
                                     !.got = IF r.data = NULL_ELEMENT THEN @
                                             ELSE Append(@, r.data)]
  /\ thr' = [thr EXCEPT ![t].pc = "unlock"]
  /\ UNCHANGED <<crawler, querier, indexer, pageio, queues, mutex, mutex_h,
                 main_thread>>

\* lhash.c:44,65,77 pthread_mutex_unlock(&mutex_h) and the return
LhUnlock(t) ==
  /\ main_thread = "table" /\ thr[t].pc = "unlock"
  /\ mutex_h' = pthread_mutex_unlock(mutex_h, t)
  /\ thr' = [thr EXCEPT ![t] = [Idle EXCEPT !.calls = thr[t].calls + 1]]
  /\ UNCHANGED <<crawler, querier, indexer, pageio, queues, mutex,
                 main_thread, call_hist, htable>>

LHashNext ==
  \E t \in Clients : LhCall(t) \/ LhLock(t) \/ LhCalled(t) \/ LhUnlock(t)

LHashSpec == LHashInit /\ [][LHashNext]_vars

\* the entries happly visits
RECURSIVE TableEntries(_)
TableEntries(buckets) ==
  IF buckets = {} THEN 0
  ELSE LET h == CHOOSE b \in buckets : TRUE
       IN  Len(queue_qapply(htable[h])) + TableEntries(buckets \ {h})

\* C33: under any interleaving of lhput, lhsearch and lhremove calls by the
\* threads that share a locked table every call takes effect atomically:
\* a search and a remove return an entry that was put under the key and not
\* removed yet, NULL only when there is none; no entry is returned by two
\* removes; and the table holds as many entries as were put and not
\* removed
C33_TableCallsAreAtomic ==
  main_thread = "table" =>
    /\ call_hist.ret \in call_hist.answers
    /\ \A j, k \in DOMAIN call_hist.got :
         j # k => call_hist.got[j] # call_hist.got[k]
    /\ TableEntries(DOMAIN htable)
         = Cardinality(call_hist.put) - Len(call_hist.got)

(* --------------------- the locks of the crawler ----------------------- *)
\* what a worker does next at each place of crawl, with the places it can
\* go on to (which one depends on the data: the page dequeued, the URL,
\* the outcome of the fetch and of the save): it takes a lock, releases
\* one, takes a step without any, or ends the process
crawl_code ==
  [get          |-> [does |-> "lock", m |-> "mutex",          \* lqueue.c:53
                     next |-> {"lqget"}],
   lqget        |-> [does |-> "unlock", m |-> "mutex",        \* lqueue.c:54-56
                     next |-> {"scan", "test"}],
   test         |-> [does |-> "step", m |-> "none",           \* crawler.c:115-118
                     next |-> {"get", "done"}],
   scan         |-> [does |-> "step", m |-> "none",           \* crawler.c:123-126
                     next |-> {"lock", "lock_ret"}],
   lock         |-> [does |-> "lock", m |-> "crawl_mutex",    \* crawler.c:128
                     next |-> {"lhsearch"}],
   lhsearch     |-> [does |-> "lock", m |-> "mutex_h",        \* lhash.c:62
                     next |-> {"lhsearch_in"}],
   lhsearch_in  |-> [does |-> "unlock", m |-> "mutex_h",      \* lhash.c:63-65
                     next |-> {"unlock_dup", "fetch"}],
   unlock_dup   |-> [does |-> "unlock", m |-> "crawl_mutex",  \* crawler.c:152
                     next |-> {"scan"}],
   fetch        |-> [does |-> "step", m |-> "none",           \* crawler.c:130-135
                     next |-> {"fetch_failed", "lqput"}],
   fetch_failed |-> [does |-> "unlock", m |-> "crawl_mutex",  \* crawler.c:137-140
                     next |-> {"scan"}],
   lqput        |-> [does |-> "lock", m |-> "mutex",          \* lqueue.c:44
                     next |-> {"lqput_in"}],
   lqput_in     |-> [does |-> "unlock", m |-> "mutex",        \* lqueue.c:45-47
                     next |-> {"lhput"}],
   lhput        |-> [does |-> "lock", m |-> "mutex_h",        \* lhash.c:42
                     next |-> {"lhput_in"}],
   lhput_in     |-> [does |-> "unlock", m |-> "mutex_h",      \* lhash.c:43-45
                     next |-> {"save"}],
   save         |-> [does |-> "unlock", m |-> "crawl_mutex",  \* crawler.c:146-148
                     next |-> {"scan", "exit"}],
   exit         |-> [does |-> "exit", m |-> "none",           \* crawler.c:149
                     next |-> {"exit"}],
   lock_ret     |-> [does |-> "lock", m |-> "crawl_mutex",    \* crawler.c:163
                     next |-> {"retrieved"}],
   retrieved    |-> [does |-> "unlock", m |-> "crawl_mutex",  \* crawler.c:164-166
                     next |-> {"get"}],
   done         |-> [does |-> "return", m |-> "none",         \* crawler.c:167
                     next |-> {"done"}]]

\* the holder of each of the three locks
holder(m) ==
  CASE m = "crawl_mutex" -> crawl_mutex
    [] m = "mutex" -> mutex.holder
    [] m = "mutex_h" -> mutex_h.holder

\* the three locks once the holder of m is h
locks_with(m, h) ==
  /\ crawl_mutex' = IF m = "crawl_mutex" THEN h ELSE crawl_mutex
  /\ mutex' = IF m = "mutex" THEN [mutex EXCEPT !.holder = h] ELSE mutex
  /\ mutex_h' = IF m = "mutex_h" THEN [mutex_h EXCEPT !.holder = h]
                ELSE mutex_h

\* crawler.c:77-91 the queue and the table are open and the workers start
LockInit ==
  /\ web = WebChain /\ max_depth = 0 /\ qp = <<>>
  /\ hp = [u \in AllURLs |-> 0]
  /\ pages_added = 1 /\ pages_retrieved = 0 /\ id = 2
  /\ crawl_mutex = FREE /\ files = <<>>
  /\ main_pc = "join" /\ exit_status = "none"
  /\ pc = [t \in Threads |-> "get"]
  /\ curr = [t \in Threads |-> NULL]
  /\ pos = [t \in Threads |-> 0]
  /\ status = [t \in Threads |-> 0]
  /\ rd = [t \in Threads |-> NoRead]
  /\ fetch_failed = {}
  /\ QuerierNotStarted /\ IndexerNotStarted
  /\ PageioNotStarted /\ QueueNotStarted
  /\ mutex = MUTEX_INITIALIZER /\ mutex_h = MUTEX_INITIALIZER
  /\ main_thread = "off" /\ thr = <<>> /\ call_hist = <<>> /\ htable = <<>>

\* what the steps of the workers leave alone
not_locks ==
  <<querier, indexer, pageio, queues, main_thread, thr, call_hist, htable,
    web, max_depth, shared, main_pc, curr, pos, status, rd, fetch_failed>>

\* faulty variant: the mutex is kept when the fetch has failed
WorkerUnlockNotAfterFetch(t) ==
  /\ Running /\ crawl_code[pc[t]].does = "unlock"
  /\ IF pc[t] = "fetch_failed"
     THEN UNCHANGED <<crawl_mutex, mutex, mutex_h>>
     ELSE locks_with(crawl_code[pc[t]].m, FREE)
  /\ \E to \in crawl_code[pc[t]].next : pc' = [pc EXCEPT ![t] = to]
  /\ UNCHANGED <<not_locks, exit_status>>

\* pthread_mutex_lock: the worker waits until the lock is free
WorkerLock(t) ==
  /\ Running /\ crawl_code[pc[t]].does = "lock"
  /\ holder(crawl_code[pc[t]].m) = FREE
  /\ locks_with(crawl_code[pc[t]].m, t)
  /\ \E to \in crawl_code[pc[t]].next : pc' = [pc EXCEPT ![t] = to]
  /\ UNCHANGED <<not_locks, exit_status>>

\* pthread_mutex_unlock, and what follows it up to the next lock
WorkerUnlock(t) ==
  /\ Running /\ crawl_code[pc[t]].does = "unlock"
  /\ locks_with(crawl_code[pc[t]].m, FREE)
  /\ \E to \in crawl_code[pc[t]].next : pc' = [pc EXCEPT ![t] = to]
  /\ UNCHANGED <<not_locks, exit_status>>

\* a step that takes and releases no lock
WorkerStep(t) ==
  /\ Running /\ crawl_code[pc[t]].does = "step"
  /\ \E to \in crawl_code[pc[t]].next : pc' = [pc EXCEPT ![t] = to]
  /\ UNCHANGED <<not_locks, exit_status, crawl_mutex, mutex, mutex_h>>

\* crawler.c:149 exit(EXIT_FAILURE): the process is over
WorkerExit(t) ==
  /\ Running /\ crawl_code[pc[t]].does = "exit"
  /\ exit_status' = "failure"
  /\ UNCHANGED <<not_locks, pc, crawl_mutex, mutex, mutex_h>>

LockNext ==
  \E t \in Threads :
    WorkerLock(t) \/ WorkerUnlock(t) \/ WorkerStep(t) \/ WorkerExit(t)

LockSpec == LockInit /\ [][LockNext]_vars

\* the workers that have not returned, while the process runs
LiveWorkers == IF Running THEN {t \in Threads : pc[t] # "done"} ELSE {}

\* worker t waits for a lock that is held
Blocked(t) ==
  /\ crawl_code[pc[t]].does = "lock"
  /\ holder(crawl_code[pc[t]].m) # FREE

\* the locks worker t holds
Held(t) == {m \in {"crawl_mutex", "mutex", "mutex_h"} : holder(m) = t}

\* C37: the crawler is deadlock-free. A worker holds no lock outside the
\* stretches that take one (so every path releases the crawl mutex); the
\* queue lock and the hash lock are held alone or inside the crawl mutex,
\* never together, and their holder waits for no lock; and whenever a
\* worker is live, some live worker is not blocked on a lock
C37_DeadlockFree ==
  /\ \A t \in Threads :
       /\ pc[t] \in {"get", "test", "scan", "lock", "lock_ret", "exit", "done"}
            => Held(t) = {}
       /\ Held(t) \in {{}, {"crawl_mutex"}, {"mutex"}, {"mutex_h"},
                       {"crawl_mutex", "mutex"}, {"crawl_mutex", "mutex_h"}}
       /\ Held(t) \cap {"mutex", "mutex_h"} # {} => ~Blocked(t)
  /\ LiveWorkers # {} => \E t \in LiveWorkers : ~Blocked(t)
C37_Witness ==
  \E t, u, v \in Threads :
    /\ Held(t) = {"crawl_mutex", "mutex_h"}
    /\ Held(u) = {"mutex"}
    /\ pc[v] = "lock_ret" /\ Blocked(v)

====
